---- MODULE Spec2Model ----
(***************************************************************************)
(* Model of the backfill populator (src/populator.py): the progress       *)
(* ledger backfill_progress, the orchestrator loop of main(), the FD and  *)
(* AS workers, the FD KeyRotator and the AS daily counter, discovery, the *)
(* upsert layer and the ID mapping; and of the live poller (src/sync.py): *)
(* its HTTP helper, fixture transform, fixture upsert and poll cycle.     *)
(***************************************************************************)
EXTENDS Integers, Sequences, FiniteSets, TLC

(* ------------------------------------------------------------------ *)
(* Program constants                                                   *)
(* ------------------------------------------------------------------ *)
MAX_WORKERS == 15
AS_ID_OFFSET == 1000000
FD_END_YEAR == 2025
AS_DAILY_LIMIT == 100
\* 24 * 60 * 60 seconds, in the AS clock's unit of 12 hours
DAY == 2

\* AS_SEASONS = [2023, 2022, 2021]
AS_SEASONS == <<2023, 2022, 2021>>

\* KeyRotator.release: 6.5 s, and KeyRotator.penalize: 70.0 s, in the FD
\* clock's unit of half a second
FD_RELEASE_COOLDOWN == 13
FD_PENALTY_COOLDOWN == 140
\* time.sleep(6.5) after every AS request, and the minute, in 0.5 s units
AS_CALL_SLEEP == 13
MINUTE == 120
AS_PER_MINUTE == 10
\* db_utils.MAX_RETRIES, db_utils.RETRY_SLEEP_SECONDS; fetch_api(retries=3)
MAX_RETRIES == 3
POLLER_RETRY_SLEEP_SECONDS == 5
retries == 3

(* ------------------------------------------------------------------ *)
(* Bounds of the model                                                 *)
(* ------------------------------------------------------------------ *)
\* number of (competition, season) units the two providers list
MaxTasks == 2
\* threads calling api_call_as at the same time, and how far its clock runs
MaxASCallers == 2
MaxASClock == 3
\* configured FD keys, threads calling api_call_fd, and how far its clock runs
MaxFDKeys == 1
MaxFDCallers == 2
MaxFDClock == 210
\* AS pacing: concurrent worker threads, and the clock's end (0.5 s units)
MaxASMCallers == 2
MaxASMClock == 80
\* upsert layer: match ids, fixture ids, rows per payload
MaxMatches == 1
MaxFixtures == 1
MaxBatch == 2
\* rows of standings_lists
MaxLists == 3
\* ID mapping: the largest small native id a provider issues
MaxNative == 1
\* discovery: leagues in one answer of the AS endpoint /leagues
MaxLeagues == 2
\* fixture payloads: the largest number of goals a side scores in regular time
MaxGoals == 2
\* poller: fixture ids the provider lists, and the days the poller runs on
MaxPolled == 2
MaxDay == 1
\* get-or-create: workers racing for a row
MaxGCWorkers == 2
\* connections: workers that run at the same time
MaxCNWorkers == 2
\* csv_populator: threads of the executor, and rows of the CSV files
MaxCSVWorkers == 2
MaxCSVRows == 2
\* connection pool: its maxconn, and the workers that run at the same time
MaxPLConns == 2
MaxPLWorkers == 3
\* poller enrichment: external leagues and priority leagues in enrichment_status
MaxENExternal == 22
MaxENPriority == 2
\* fetch.py limiter: threads that call wait, and the last clock value
MaxTBCallers == 2
MaxTBClock == 3
\* fetch.py backfill: competitions, provider matches, and the years the
\* process runs in
MaxBFComps == 2
MaxBFMatches == 4
BFFirstYear == 2025
BFLastYear == 2026

(* ------------------------------------------------------------------ *)
(* The task universe: what the providers' catalogues can list.         *)
(* A task is the tuple (comp_id, year, comp_name, is_current, type)    *)
(* of the source; comp_name is only logged and is left out.            *)
(* ------------------------------------------------------------------ *)
Catalogue(i) ==
    IF i % 2 = 1
    THEN [comp_id |-> 2021, year |-> FD_END_YEAR - (i \div 2),
          is_current |-> (i = 1), task_type |-> "FD"]
    ELSE [comp_id |-> AS_ID_OFFSET + 100 + (i \div 2), year |-> AS_SEASONS[1],
          is_current |-> (AS_SEASONS[1] = 2025), task_type |-> "AS"]

Universe == {Catalogue(i) : i \in 1..MaxTasks}

Key(t) == <<t.comp_id, t.year>>

Keys == {Key(t) : t \in Universe}

TaskOf(k) == CHOOSE t \in Universe : Key(t) = k

\* the provider calls of one task, in the order the worker makes them
CallPlan(t) ==
    IF t.task_type = "AS"
    THEN <<"teams", "matches", "standings">>
    ELSE IF t.is_current
         THEN <<"matches", "standings", "teams">>
         ELSE <<"matches", "teams">>

RequiredWrites(t) == {CallPlan(t)[i] : i \in 1..Len(CallPlan(t))}

VARIABLES
    ledger,                 \* backfill_progress: key -> [status, task_type]
    data,                   \* committed task data: key -> set of written kinds
    all_discovered_tasks,   \* main(): the discovered task list
    tasks_to_run,           \* main(): the tasks of the current sweep
    main_pc,                \* main(): position of the orchestrator
    worker,                 \* per task of the sweep: its future / worker thread
    as_request_count,       \* module global: AS calls counted today
    as_daily_reset_time,    \* module global: when the AS counter resets
    as_clock,               \* time.time() as api_call_as reads it (12 h units)
    as_caller,              \* threads inside api_call_as: caller -> position
    as_admitted,            \* observer: calls let through since the last reset
    as_win_start,           \* observer: start of the watched 24 h window, or -1
    as_win_count,           \* observer: requests sent inside the watched window
    fd_clock,               \* time.time() as the KeyRotator reads it (0.5 s units)
    fd_queue,               \* fd_rotator.queue: sorted <<next_free_time, key>>
    fd_caller,              \* threads inside api_call_fd: caller -> record
    fd_win_start,           \* observer: start of the watched 60 s window, or -1
    fd_win_key,             \* observer: the key whose requests are watched
    fd_win_count,           \* observer: requests sent with it inside the window
    asm_clock,              \* time.time() on the scale of the AS pacing (0.5 s units)
    asm_caller,             \* worker threads calling api_call_as: caller -> wake time
    asm_win_start,          \* observer: start of the watched 60 s window, or -1
    asm_win_count,          \* observer: AS requests sent inside the watched window
    rq_fn,                  \* the HTTP helper in use: "async_get" or "fetch_api"
    rq_attempt,             \* its loop variable attempt
    rq_log,                 \* the provider's answers to this call's HTTP attempts
    rq_pc,                  \* "idle", "loop" (inside the for loop) or "returned"
    rq_result,              \* what the call returned
    rq_slept,               \* seconds the call has slept between attempts
    up_program,             \* the program whose upsert layer runs: "populator" or "sync"
    bk_teams,               \* populator: table teams, team_id -> row
    bk_matches,             \* populator: table matches, match_id -> row
    fx_teams,               \* sync: table teams, team_id -> row
    fx_fixtures,            \* sync: table fixtures, fixture_id -> row
    up_outcome,             \* how the last upsert call ended
    up_again,               \* the tables a second application of the same payload leaves
    up_asked,               \* sync: what the last batch says about each fixture
    up_malformed,           \* sync: the last batch held a row with a required field missing
    st_lists,               \* populator: table standings_lists, in order of standings_list_id
    st_rows,                \* populator: table standing_rows, (list id, team id) -> points or -1
    id_rows,                \* populator: the entities written so far, with their origin
    ds_pc,                  \* discovery: "fd", "as" (season loop) or "run" (tasks are dispatched)
    ds_season,              \* discover_as_tasks: index into AS_SEASONS of the next season
    ds_comps,               \* table competitions: the committed rows
    ds_tasks,               \* all_discovered_tasks
    ds_matches,             \* table matches: the committed rows, with the league they were fetched for
    ds_listed,              \* observer: the AS league ids the provider has listed
    tf_payload,             \* one fixture item of the AS endpoint /fixtures, as received
    tf_poller,              \* sync: what transform_fixture_data makes of it
    tf_backfill,            \* populator: what transform_as_matches makes of it
    tf_csv,                 \* offline_csv_converter: the winner columns of the same result
    pc_pos,                 \* main_loop_async: "sleep" (between cycles) or "gather" (workers run)
    pc_day,                 \* the calendar date (UTC), counted in days from the poller's start
    dates_to_sync,          \* main_loop_async: the dates its workers fetch
    pc_table,               \* sync: table fixtures, fixture_id -> status_short or "absent"
    pc_done,                \* the workers of this cycle's gather that have returned
    all_updated_ids,        \* main_loop_async: the union of the workers' results
    pc_trigger,             \* how this cycle called trigger_predictor
    pc_cycle_day,           \* observer: the calendar date when this cycle began
    pc_committed,           \* observer: ids committed with a live-ish status in this cycle
    pc_same,                \* observer: all that this cycle fetched equals what was stored
    gc_routine,             \* the get-or-create routine the two workers run, or "none"
    gc_rows,                \* table areas (or teams): the committed rows
    gc_worker,              \* per worker: position, wanted name, chosen id, uncommitted row, result
    cn_worker,              \* per worker: its kind, position, pooled connection, HTTP call in flight
    at_teams,               \* AS task: the rows its /teams call wrote, team_id -> row
    at_done,                \* AS task: the last task ran to its commit
    bf_year,                \* fetch.py backfill: the calendar year of datetime.utcnow()
    bf_pc,                  \* fetch.py backfill: position of backfill_manager
    bf_worker,              \* fetch.py backfill: competition -> [pc, todo] of process_competition_backfill
    bf_stored,              \* fetch.py backfill: ids of the rows of the Match table
    bf_state,               \* fetch.py backfill: SyncState, competition -> last_synced_match_id of its season
    bf_failed,              \* fetch.py backfill: matches whose processing has failed
    tb_clock,               \* fetch.py limiter: time.time(), in units of REQUEST_INTERVAL
    tb_tokens,              \* fetch.py limiter: rate_limiter.tokens
    tb_last_refill,         \* fetch.py limiter: rate_limiter.last_refill
    tb_sleeper,             \* fetch.py limiter: the thread asleep inside the lock, [caller, wake], caller 0 when none
    tb_granted,             \* fetch.py limiter: time -> number of calls of wait that returned then
    en_status,              \* poller enrichment: enrichment_status.status, league_id -> status
    en_fresh,               \* poller enrichment: league_id -> last_enriched_at is within the cooldown
    en_cooldown,            \* poller enrichment: LAST_ENRICHMENT_RUN is within the cooldown
    en_targets,             \* poller enrichment: targets_to_run of the latest cycle
    pl_used,                \* connection pool: the connections that are checked out
    pl_worker,              \* connection pool: worker -> [kind, pc, conn, outcome]; conn 0 is None
    pl_fault,               \* connection pool: putconn was called with a connection that is not checked out
    cs_area,                \* csv_populator: the areas table holds the row's area
    cs_committed,           \* csv_populator: committed rows, as pairs <<CSV row, table>>
    cs_worker               \* csv_populator: thread -> its row and its position in _process_row_with_conn

orch_vars == <<ledger, data, all_discovered_tasks, tasks_to_run, main_pc, worker>>

as_vars == <<as_request_count, as_daily_reset_time, as_clock>>

as_obs_vars == <<as_caller, as_admitted, as_win_start, as_win_count>>

fd_vars == <<fd_clock, fd_queue, fd_caller, fd_win_start, fd_win_key, fd_win_count>>

asm_vars == <<asm_clock, asm_caller, asm_win_start, asm_win_count>>

\* the state of the components that are explored on their own
rq_vars == <<rq_fn, rq_attempt, rq_log, rq_pc, rq_result, rq_slept>>

up_vars == <<up_program, bk_teams, bk_matches, fx_teams, fx_fixtures,
             up_outcome, up_again, up_asked, up_malformed>>

st_vars == <<st_lists, st_rows>>

ds_vars == <<ds_pc, ds_season, ds_comps, ds_tasks, ds_matches, ds_listed>>

tf_vars == <<tf_payload, tf_poller, tf_backfill, tf_csv>>

pc_vars == <<pc_pos, pc_day, dates_to_sync, pc_table, pc_done, all_updated_ids, pc_trigger, pc_cycle_day, pc_committed, pc_same>>

gc_vars == <<gc_routine, gc_rows, gc_worker>>

cn_vars == <<cn_worker>>

at_vars == <<at_teams, at_done>>

bf_vars == <<bf_year, bf_pc, bf_worker, bf_stored, bf_state, bf_failed>>

tb_vars == <<tb_clock, tb_tokens, tb_last_refill, tb_sleeper, tb_granted>>

en_vars == <<en_status, en_fresh, en_cooldown, en_targets>>

pl_vars == <<pl_used, pl_worker, pl_fault>>

cs_vars == <<cs_area, cs_committed, cs_worker>>

ext_vars == <<asm_vars, rq_vars, up_vars, st_vars, id_rows, ds_vars, tf_vars, pc_vars, gc_vars, cn_vars, at_vars, bf_vars, tb_vars, en_vars, pl_vars, cs_vars>>

\* what the steps of one component leave alone
asm_rest == <<orch_vars, as_obs_vars, fd_vars, rq_vars, up_vars, st_vars, id_rows, ds_vars, tf_vars, pc_vars, gc_vars, cn_vars, at_vars, bf_vars, tb_vars, en_vars, pl_vars, cs_vars>>

rq_rest == <<orch_vars, as_vars, as_obs_vars, fd_vars, asm_vars, up_vars, st_vars, id_rows, ds_vars, tf_vars, pc_vars, gc_vars, cn_vars, at_vars, bf_vars, tb_vars, en_vars, pl_vars, cs_vars>>

up_rest == <<orch_vars, as_vars, as_obs_vars, fd_vars, asm_vars, rq_vars, st_vars, id_rows, ds_vars, tf_vars, pc_vars, gc_vars, cn_vars, at_vars, bf_vars, tb_vars, en_vars, pl_vars, cs_vars>>

st_rest == <<orch_vars, as_vars, as_obs_vars, fd_vars, asm_vars, rq_vars, id_rows, ds_vars, tf_vars, pc_vars, gc_vars, cn_vars, at_vars, bf_vars, tb_vars, en_vars, pl_vars, cs_vars>>

id_rest == <<orch_vars, as_vars, as_obs_vars, fd_vars, asm_vars, rq_vars, up_vars, st_vars, ds_vars, tf_vars, pc_vars, gc_vars, cn_vars, at_vars, bf_vars, tb_vars, en_vars, pl_vars, cs_vars>>

ds_rest == <<orch_vars, as_vars, as_obs_vars, fd_vars, asm_vars, rq_vars, up_vars, st_vars, id_rows, tf_vars, pc_vars, gc_vars, cn_vars, at_vars, bf_vars, tb_vars, en_vars, pl_vars, cs_vars>>

tf_rest == <<orch_vars, as_vars, as_obs_vars, fd_vars, asm_vars, rq_vars, up_vars, st_vars, id_rows, ds_vars, pc_vars, gc_vars, cn_vars, at_vars, bf_vars, tb_vars, en_vars, pl_vars, cs_vars>>

pc_rest == <<orch_vars, as_vars, as_obs_vars, fd_vars, asm_vars, rq_vars, up_vars, st_vars, id_rows, ds_vars, tf_vars, gc_vars, cn_vars, at_vars, bf_vars, tb_vars, en_vars, pl_vars, cs_vars>>

gc_rest == <<orch_vars, as_vars, as_obs_vars, fd_vars, asm_vars, rq_vars, up_vars, st_vars, id_rows, ds_vars, tf_vars, pc_vars, cn_vars, at_vars, bf_vars, tb_vars, en_vars, pl_vars, cs_vars>>

cn_rest == <<orch_vars, as_vars, as_obs_vars, fd_vars, asm_vars, rq_vars, up_vars, st_vars, id_rows, ds_vars, tf_vars, pc_vars, gc_vars, at_vars, bf_vars, tb_vars, en_vars, pl_vars, cs_vars>>

at_rest == <<orch_vars, as_vars, as_obs_vars, fd_vars, asm_vars, rq_vars, up_vars, st_vars, id_rows, ds_vars, tf_vars, pc_vars, gc_vars, cn_vars, bf_vars, tb_vars, en_vars, pl_vars, cs_vars>>

bf_rest == <<orch_vars, as_vars, as_obs_vars, fd_vars, asm_vars, rq_vars, up_vars, st_vars, id_rows, ds_vars, tf_vars, pc_vars, gc_vars, cn_vars, at_vars, tb_vars, en_vars, pl_vars, cs_vars>>

tb_rest == <<orch_vars, as_vars, as_obs_vars, fd_vars, asm_vars, rq_vars, up_vars, st_vars, id_rows, ds_vars, tf_vars, pc_vars, gc_vars, cn_vars, at_vars, bf_vars, en_vars, pl_vars, cs_vars>>

en_rest == <<orch_vars, as_vars, as_obs_vars, fd_vars, asm_vars, rq_vars, up_vars, st_vars, id_rows, ds_vars, tf_vars, pc_vars, gc_vars, cn_vars, at_vars, bf_vars, tb_vars, pl_vars, cs_vars>>

pl_rest == <<orch_vars, as_vars, as_obs_vars, fd_vars, asm_vars, rq_vars, up_vars, st_vars, id_rows, ds_vars, tf_vars, pc_vars, gc_vars, cn_vars, at_vars, bf_vars, tb_vars, en_vars, cs_vars>>

cs_rest == <<orch_vars, as_vars, as_obs_vars, fd_vars, asm_vars, rq_vars, up_vars, st_vars, id_rows, ds_vars, tf_vars, pc_vars, gc_vars, cn_vars, at_vars, bf_vars, tb_vars, en_vars, pl_vars>>

\* what the orchestrator's steps leave alone
side_vars == <<as_obs_vars, fd_vars, ext_vars>>

vars == <<orch_vars, as_vars, as_obs_vars, fd_vars, ext_vars>>

NoRow == [status |-> "NONE", task_type |-> "NONE"]

IdleWorker == [pc |-> "idle", step |-> 0, staged |-> {}, err |-> "none"]

Statuses == {"PENDING", "COMPLETED", "FAILED"}

\* The ledger is durable and outlives the process: a run starts from whatever
\* an earlier run left. A COMPLETED row was committed together with its data.
ASCallers == 1..MaxASCallers

FDKeys == 1..MaxFDKeys

FDCallers == 1..MaxFDCallers

ASMCallers == 1..MaxASMCallers

FDIdleCaller == [pc |-> "idle", key |-> 0, wake |-> 0]

\* KeyRotator.__init__: queue.put((0, key)) for every key
RECURSIVE InitialQueue(_)
InitialQueue(n) == IF n = 0 THEN <<>> ELSE InitialQueue(n - 1) \o <<(<<0, n>>)>>

Absent == [exists |-> FALSE]

TeamIds == {1, 2}

MatchIds == 1..MaxMatches

FixtureIds == 1..MaxFixtures

ListIds == 1..MaxLists

PolledIds == 1..MaxPolled

GCWorkers == 1..MaxGCWorkers

CNWorkers == 1..MaxCNWorkers

CNIdle == [kind |-> "none", pc |-> "idle", conn |-> FALSE, http |-> FALSE, calls |-> 0]

\* src/fetch.py: requests allowed per minute; REQUEST_INTERVAL is the
\* MAX_REQUESTS_PER_MINUTE-th part of a minute
MAX_REQUESTS_PER_MINUTE == 8

\* poller enrichment: leagues 1..MaxENExternal are external, the leagues above
\* them are the leagues of mapping.json
ENExternal == 1..MaxENExternal

PRIORITY_LEAGUE_IDS == (MaxENExternal + 1)..(MaxENExternal + MaxENPriority)

ENLeagues == ENExternal \cup PRIORITY_LEAGUE_IDS

PLWorkers == 1..MaxPLWorkers

PLConns == 1..MaxPLConns

PLIdle == [kind |-> "none", pc |-> "idle", conn |-> 0, outcome |-> "none"]

CSVWorkers == 1..MaxCSVWorkers

CSVRows == 1..MaxCSVRows

CSVIdle == [pc |-> "idle", row |-> 0, source_type |-> "FD", referee |-> FALSE,
            odds |-> FALSE, pending |-> {}, inserted |-> {}, error |-> FALSE]

BFComps == 1..MaxBFComps

BFIdle == [pc |-> "idle", todo |-> <<>>]

GCIdle == [pc |-> "idle", name |-> "", new_id |-> 0, pending |-> FALSE, result |-> 0]

\* the tables after create_tables on a new database; nothing upserted yet
EmptyTables ==
    /\ bk_teams = [t \in TeamIds |-> Absent]
    /\ bk_matches = [m \in MatchIds |-> Absent]
    /\ fx_teams = [t \in TeamIds |-> Absent]
    /\ fx_fixtures = [f \in FixtureIds |-> Absent]
    /\ up_outcome = "none"
    /\ up_again = [teams |-> bk_teams, matches |-> bk_matches,
                   fx_teams |-> fx_teams, fixtures |-> fx_fixtures]
    /\ up_asked = [f \in FixtureIds |-> Absent]
    /\ up_malformed = FALSE
    /\ st_lists = <<>>
    /\ st_rows = [k \in ListIds \X TeamIds |-> -1]
    /\ id_rows = {}
    /\ cs_area = FALSE
    /\ cs_committed = {}
    /\ cs_worker = [w \in CSVWorkers |-> CSVIdle]
    /\ pl_used = {}
    /\ pl_worker = [w \in PLWorkers |-> PLIdle]
    /\ pl_fault = FALSE
    /\ en_status = [l \in ENLeagues |-> IF l \in PRIORITY_LEAGUE_IDS THEN "PRIORITY" ELSE "PENDING"]
    /\ en_fresh = [l \in ENLeagues |-> FALSE]
    /\ en_cooldown = FALSE
    /\ en_targets = {}
    /\ tb_clock = 0
    /\ tb_tokens = MAX_REQUESTS_PER_MINUTE
    /\ tb_last_refill = 0
    /\ tb_sleeper = [caller |-> 0, wake |-> 0]
    /\ tb_granted = [t \in 0..MaxTBClock |-> 0]
    /\ bf_year = BFFirstYear
    /\ bf_pc = "idle"
    /\ bf_worker = [c \in BFComps |-> BFIdle]
    /\ bf_stored = {}
    /\ bf_state = [c \in BFComps |-> 0]
    /\ bf_failed = {}
    /\ at_teams = [t \in TeamIds |-> Absent]
    /\ at_done = FALSE
    /\ cn_worker = [w \in CNWorkers |-> CNIdle]
    /\ gc_routine = "none"
    /\ gc_rows = {}
    /\ gc_worker = [w \in GCWorkers |-> GCIdle]
    /\ pc_pos = "sleep"
    /\ pc_day = 0
    /\ dates_to_sync = <<pc_day - 1, pc_day, pc_day + 1>>
    /\ pc_table = [f \in PolledIds |-> "absent"]
    /\ pc_done = 0
    /\ all_updated_ids = {}
    /\ pc_trigger = [called |-> FALSE, ids |-> {}]
    /\ pc_cycle_day = 0
    /\ pc_committed = {}
    /\ pc_same = TRUE
    /\ tf_payload = Absent
    /\ tf_poller = Absent
    /\ tf_backfill = Absent
    /\ tf_csv = Absent
    /\ ds_pc = "fd"
    /\ ds_season = 1
    /\ ds_comps = {}
    /\ ds_tasks = {}
    /\ ds_matches = {}
    /\ ds_listed = {}

\* no call of an HTTP helper is under way, no upsert has run
QuietHelpers ==
    /\ rq_fn = "async_get"
    /\ rq_attempt = 0
    /\ rq_log = <<>>
    /\ rq_pc = "idle"
    /\ rq_result = "none"
    /\ rq_slept = 0
    /\ EmptyTables

\* module load: the AS globals, fd_rotator = KeyRotator(FD_API_KEYS)
InitGlobals ==
    /\ as_request_count = 0
    /\ as_clock = 0
    /\ as_daily_reset_time = as_clock + DAY
    /\ as_caller = [c \in ASCallers |-> "idle"]
    /\ as_admitted = 0
    /\ as_win_start = -1
    /\ as_win_count = 0
    /\ fd_clock = 0
    /\ fd_queue = InitialQueue(MaxFDKeys)
    /\ fd_caller = [c \in FDCallers |-> FDIdleCaller]
    /\ fd_win_start = -1
    /\ fd_win_key = 0
    /\ fd_win_count = 0
    /\ asm_clock = 0
    /\ asm_caller = [c \in ASMCallers |-> 0]
    /\ asm_win_start = -1
    /\ asm_win_count = 0
    /\ QuietHelpers

Init ==
    /\ InitGlobals
    /\ up_program = "populator"
    /\ ledger \in [Keys -> {NoRow} \cup
                     [status : Statuses, task_type : {"FD", "AS"}]]
    /\ \A k \in Keys : ledger[k].status # "NONE" =>
                          ledger[k].task_type = TaskOf(k).task_type
    /\ data = [k \in Keys |->
                 IF ledger[k].status = "COMPLETED"
                 THEN RequiredWrites(TaskOf(k)) ELSE {}]
    /\ all_discovered_tasks = <<>>
    /\ tasks_to_run = <<>>
    /\ main_pc = "start"
    /\ worker = [k \in Keys |-> IdleWorker]

(* ------------------------------------------------------------------ *)
(* Helpers on sequences                                                *)
(* ------------------------------------------------------------------ *)
Range(s) == {s[i] : i \in 1..Len(s)}

\* the catalogue order restricted to a set of tasks
RECURSIVE ListOf(_, _)
ListOf(S, i) ==
    IF i > MaxTasks THEN <<>>
    ELSE IF Catalogue(i) \in S THEN <<Catalogue(i)>> \o ListOf(S, i + 1)
         ELSE ListOf(S, i + 1)

\* [t for t in s if P(t)]
RECURSIVE Filter(_, _)
Filter(s, S) ==
    IF s = <<>> THEN <<>>
    ELSE IF Head(s) \in S THEN <<Head(s)>> \o Filter(Tail(s), S)
         ELSE Filter(Tail(s), S)

(* ------------------------------------------------------------------ *)
(* api_call_as: the section under as_lock                              *)
(* ------------------------------------------------------------------ *)
as_lock_section_OffByOne(count, reset, t) ==
    LET c1 == IF t > reset THEN 0 ELSE count
        r1 == IF t > reset THEN t + DAY ELSE reset
    IN  IF c1 > AS_DAILY_LIMIT
        THEN [count |-> c1, reset |-> r1, admitted |-> FALSE]
        ELSE [count |-> c1 + 1, reset |-> r1, admitted |-> TRUE]

\* count, reset time and whether the call goes on to send its request
as_lock_section(count, reset, t) ==
    LET c1 == IF t > reset THEN 0 ELSE count
        r1 == IF t > reset THEN t + DAY ELSE reset
    IN  IF c1 >= AS_DAILY_LIMIT
        THEN [count |-> c1, reset |-> r1, admitted |-> FALSE]
        ELSE [count |-> c1 + 1, reset |-> r1, admitted |-> TRUE]

(* ------------------------------------------------------------------ *)
(* get_pending_tasks                                                   *)
(* ------------------------------------------------------------------ *)
\* INSERT ... ON CONFLICT (competition_id, season_year) DO UPDATE
\* SET task_type = EXCLUDED.task_type; a new row takes the column defaults
RegisterRow_ResetStatus(row, t) ==
    [status |-> "PENDING", task_type |-> t.task_type]

RegisterRow(row, t) ==
    IF row.status = "NONE"
    THEN [status |-> "PENDING", task_type |-> t.task_type]
    ELSE [row EXCEPT !.task_type = t.task_type]

RegisterTasks(led, tasks) ==
    [k \in Keys |->
        IF \E t \in Range(tasks) : Key(t) = k
        THEN RegisterRow(led[k], TaskOf(k))
        ELSE led[k]]

PendingKeys_FailedIncluded(led) ==
    {k \in Keys : led[k].status # "NONE" /\ led[k].status # "COMPLETED"}

PendingKeys_CompletedIncluded(led) ==
    {k \in Keys : led[k].status # "NONE" /\ led[k].status # "FAILED"}

\* SELECT ... WHERE status != 'COMPLETED' AND status != 'FAILED'
PendingKeys(led) ==
    {k \in Keys : /\ led[k].status # "NONE"
                  /\ led[k].status # "COMPLETED"
                  /\ led[k].status # "FAILED"}

get_pending_tasks(led, tasks) ==
    Filter(tasks, {t \in Universe : Key(t) \in PendingKeys(RegisterTasks(led, tasks))})

\* tasks_to_run.sort(key=lambda x: x[4] == 'AS'): a stable sort, AS last
SortASLast(s) ==
    Filter(s, {t \in Universe : t.task_type # "AS"})
        \o Filter(s, {t \in Universe : t.task_type = "AS"})

(* ------------------------------------------------------------------ *)
(* main()                                                              *)
(* ------------------------------------------------------------------ *)
\* create_tables, populate_all_areas_once, discover_fd_tasks and
\* discover_as_tasks: run before any worker exists. Each discovery keeps the
\* tasks whose provider calls succeeded; discover_as_tasks calls api_call_as
\* once per season of AS_SEASONS.
MainStartupFails ==
    /\ main_pc = "start"
    /\ main_pc' = "startup_failed"
    /\ UNCHANGED <<ledger, data, all_discovered_tasks, tasks_to_run, worker>>
    /\ UNCHANGED <<as_vars, side_vars>>

MainDiscover ==
    /\ main_pc = "start"
    /\ \E S \in SUBSET Universe :
          /\ all_discovered_tasks' = ListOf(S, 1)
          /\ main_pc' = IF S = {} THEN "no_tasks" ELSE "loop"
    /\ as_request_count' = as_request_count + Len(AS_SEASONS)
    /\ UNCHANGED <<ledger, data, tasks_to_run, worker>>
    /\ UNCHANGED <<as_daily_reset_time, as_clock, side_vars>>

\* the head of the while loop: get_pending_tasks, then break or dispatch
MainGetPending ==
    /\ main_pc = "loop"
    /\ ledger' = RegisterTasks(ledger, all_discovered_tasks)
    /\ LET pend == get_pending_tasks(ledger, all_discovered_tasks)
       IN  IF pend = <<>>
           THEN /\ main_pc' = "done"
                /\ UNCHANGED <<tasks_to_run, worker>>
           ELSE /\ main_pc' = "executor"
                /\ tasks_to_run' = SortASLast(pend)
                /\ worker' = [k \in Keys |->
                                IF \E t \in Range(pend) : Key(t) = k
                                THEN [IdleWorker EXCEPT !.pc = "queued"]
                                ELSE IdleWorker]
    /\ UNCHANGED <<data, all_discovered_tasks>>
    /\ UNCHANGED <<as_vars, side_vars>>

Finished(w) == w.pc \in {"true", "false"}

Settled(w) == w.pc \in {"idle", "true", "false", "raised", "cancelled"}

\* logging.CRITICAL is the integer 50: calling it raises TypeError
AfterSweep == IF as_request_count >= AS_DAILY_LIMIT THEN "aborted" ELSE "loop"

\* results = list(executor.map(...)) with every worker returned
MainCollect ==
    /\ main_pc = "executor"
    /\ \A t \in Range(tasks_to_run) : Finished(worker[Key(t)])
    /\ main_pc' = IF \E t \in Range(tasks_to_run) : worker[Key(t)].pc = "false"
                  THEN "sleep" ELSE AfterSweep
    /\ UNCHANGED <<ledger, data, all_discovered_tasks, tasks_to_run, worker>>
    /\ UNCHANGED <<as_vars, side_vars>>

\* time.sleep(RETRY_SLEEP_SECONDS) is over
MainWake ==
    /\ main_pc = "sleep"
    /\ main_pc' = AfterSweep
    /\ UNCHANGED <<ledger, data, all_discovered_tasks, tasks_to_run, worker>>
    /\ UNCHANGED <<as_vars, side_vars>>

\* the result iterator reaches a future that holds an exception: it raises in
\* main and cancels the futures no worker has picked up yet
MainRaise ==
    /\ main_pc = "executor"
    /\ \E i \in 1..Len(tasks_to_run) :
          /\ worker[Key(tasks_to_run[i])].pc = "raised"
          /\ \A j \in 1..(i - 1) : Finished(worker[Key(tasks_to_run[j])])
    /\ worker' = [k \in Keys |->
                    IF worker[k].pc = "queued"
                    THEN [worker[k] EXCEPT !.pc = "cancelled"]
                    ELSE worker[k]]
    /\ main_pc' = "unwinding"
    /\ UNCHANGED <<ledger, data, all_discovered_tasks, tasks_to_run>>
    /\ UNCHANGED <<as_vars, side_vars>>

\* the executor's with-block waits for the running workers; then main's
\* except-clause logs "Main process failed" and the process ends
MainAbort ==
    /\ main_pc = "unwinding"
    /\ \A k \in Keys : Settled(worker[k])
    /\ main_pc' = "aborted"
    /\ UNCHANGED <<ledger, data, all_discovered_tasks, tasks_to_run, worker>>
    /\ UNCHANGED <<as_vars, side_vars>>

(* ------------------------------------------------------------------ *)
(* process_season_task_fd / process_season_task_as                     *)
(* ------------------------------------------------------------------ *)
Running == {k \in Keys : worker[k].pc \in {"running", "commit"}}

\* a worker thread picks the task up; the task opens with
\* UPDATE backfill_progress SET status = 'PENDING' ...; conn.commit()
MarkPending(led, k) ==
    IF led[k].status = "NONE" THEN led
    ELSE [led EXCEPT ![k].status = "PENDING"]

StartTask(k) ==
    /\ main_pc = "executor"
    /\ worker[k].pc = "queued"
    /\ Cardinality(Running) < MAX_WORKERS
    /\ ledger' = MarkPending(ledger, k)
    /\ worker' = [worker EXCEPT ![k].pc = "running", ![k].step = 1]
    /\ UNCHANGED <<data, all_discovered_tasks, tasks_to_run, main_pc>>
    /\ UNCHANGED <<as_vars, side_vars>>

\* the response is upserted inside the task's open transaction; after the
\* last call the COMPLETED update is staged in the same transaction
StageCall(w, plan) ==
    [w EXCEPT !.staged = @ \cup {plan[w.step]},
              !.step = IF w.step = Len(plan) THEN w.step ELSE w.step + 1,
              !.pc = IF w.step = Len(plan) THEN "commit" ELSE "running"]

\* except Exception as e of process_season_task_fd: conn.rollback(); on
\* "Forbidden (403)" the handler calls logging.CRITICAL(...), the integer 50,
\* which raises TypeError before the FAILED update; else it returns False
fd_except(w, e) ==
    IF e = "403"
    THEN [w EXCEPT !.staged = {}, !.pc = "raised", !.err = e]
    ELSE [w EXCEPT !.staged = {}, !.pc = "false", !.err = e]

\* except Exception as e of process_season_task_as: conn.rollback(); on a
\* message holding "limit" the handler calls logging.CRITICAL(...): TypeError
as_except(w, e) ==
    IF e = "limit"
    THEN [w EXCEPT !.staged = {}, !.pc = "raised", !.err = e]
    ELSE [w EXCEPT !.staged = {}, !.pc = "false", !.err = e]

FDOutcomes == {"ok", "403", "429", "error"}

\* one api_call_fd of the task and the upsert of its response
FDCall(k) ==
    /\ worker[k].pc = "running"
    /\ TaskOf(k).task_type = "FD"
    /\ \E out \in FDOutcomes :
          worker' = [worker EXCEPT ![k] =
                        IF out = "ok" THEN StageCall(@, CallPlan(TaskOf(k)))
                        ELSE fd_except(@, out)]
    /\ UNCHANGED <<ledger, data, all_discovered_tasks, tasks_to_run, main_pc>>
    /\ UNCHANGED <<as_vars, side_vars>>

ASOutcomes == {"ok", "error"}

\* one api_call_as of the task and the upsert of its response
ASCall(k) ==
    /\ worker[k].pc = "running"
    /\ TaskOf(k).task_type = "AS"
    /\ LET r == as_lock_section(as_request_count, as_daily_reset_time, as_clock)
       IN  /\ as_request_count' = r.count
           /\ as_daily_reset_time' = r.reset
           /\ IF r.admitted
              THEN \E out \in ASOutcomes :
                      worker' = [worker EXCEPT ![k] =
                                    IF out = "ok"
                                    THEN StageCall(@, CallPlan(TaskOf(k)))
                                    ELSE as_except(@, out)]
              ELSE worker' = [worker EXCEPT ![k] = as_except(@, "limit")]
    /\ UNCHANGED <<ledger, data, all_discovered_tasks, tasks_to_run, main_pc>>
    /\ UNCHANGED <<as_clock, side_vars>>

\* the final conn.commit(): the staged data and the COMPLETED status become
\* durable in one transaction
CommitLedger(led, k) == [led EXCEPT ![k].status = "COMPLETED"]

CommitData_TeamsLater(d, k, w) == [d EXCEPT ![k] = @ \cup (w.staged \ {"teams"})]

CommitData(d, k, w) == [d EXCEPT ![k] = @ \cup w.staged]

CommitTask(k) ==
    /\ worker[k].pc = "commit"
    /\ ledger' = CommitLedger(ledger, k)
    /\ data' = CommitData(data, k, worker[k])
    /\ worker' = [worker EXCEPT ![k].pc = "true", ![k].staged = {}]
    /\ UNCHANGED <<all_discovered_tasks, tasks_to_run, main_pc>>
    /\ UNCHANGED <<as_vars, side_vars>>

(* ------------------------------------------------------------------ *)
(* The process ends (it is killed at any step, or it has exited) and   *)
(* is started again: open transactions are lost, the module globals    *)
(* are initialised afresh, the database keeps what was committed.      *)
(* ------------------------------------------------------------------ *)
Restart ==
    /\ main_pc # "start"
    /\ main_pc' = "start"
    /\ all_discovered_tasks' = <<>>
    /\ tasks_to_run' = <<>>
    /\ worker' = [k \in Keys |-> IdleWorker]
    /\ as_request_count' = 0
    /\ as_daily_reset_time' = as_clock + DAY
    /\ UNCHANGED <<ledger, data, as_clock, side_vars>>

Next ==
    \/ MainStartupFails
    \/ MainDiscover
    \/ MainGetPending
    \/ MainCollect
    \/ MainWake
    \/ MainRaise
    \/ MainAbort
    \/ \E k \in Keys : StartTask(k)
    \/ \E k \in Keys : FDCall(k)
    \/ \E k \in Keys : ASCall(k)
    \/ \E k \in Keys : CommitTask(k)
    \/ Restart

Spec == Init /\ [][Next]_vars

(* ------------------------------------------------------------------ *)
(* Claims on the progress ledger and the orchestrator                  *)
(* ------------------------------------------------------------------ *)
DiscoveredKeys == {Key(t) : t \in Range(all_discovered_tasks)}

Stopped == main_pc \in {"unwinding", "aborted"}

\* C1: when an FD task's call is answered 403, the task's row is FAILED and
\* committed by the time its worker has finished.
C1_ForbiddenTaskMarkedFailed ==
    \A k \in Keys :
        (worker[k].err = "403" /\ Settled(worker[k]))
            => ledger[k].status = "FAILED"

\* C2: a 403 on one FD task does not abort the run: no task of the sweep is
\* dropped and the orchestrator does not leave its loop.
C2_ForbiddenDoesNotAbortRun ==
    (\E k \in Keys : worker[k].err = "403")
        => /\ ~Stopped
           /\ \A j \in Keys : worker[j].pc # "cancelled"

\* C3: a FAILED row stays FAILED through every step (registration, the PENDING
\* update of a starting task, sweeps, a restart with a new discovery) and its
\* task is not dispatched.
C3_FailedIsTerminal ==
    [][\A k \in Keys :
          ledger[k].status = "FAILED"
            => /\ ledger'[k].status = "FAILED"
               /\ worker'[k].pc \in {"idle", worker[k].pc}]_vars

C3_Witness ==
    /\ main_pc = "executor"
    /\ \E k \in DiscoveredKeys :
          /\ ledger[k].status = "FAILED"
          /\ worker[k].pc = "idle"
    /\ \E j \in Keys : worker[j].pc = "running"

\* C4: a task whose row is COMPLETED is not dispatched by any later sweep, of
\* this run or of a later run.
C4_CompletedNotDispatched ==
    [][\A k \in Keys :
          ledger[k].status = "COMPLETED"
            => worker'[k].pc \notin {"queued", "running", "commit"}]_vars

C4_Witness ==
    /\ main_pc = "executor"
    /\ \E k \in DiscoveredKeys :
          /\ ledger[k].status = "COMPLETED"
          /\ worker[k].pc = "idle"
    /\ \E j \in Keys : worker[j].pc = "queued"

\* C5: a task that failed with an exception other than 403 has its row
\* PENDING and the orchestrator goes on to the sweep that dispatches it again.
C5_RetryableFailureIsRetried ==
    \A k \in Keys :
        (worker[k].err \notin {"none", "403"} /\ Settled(worker[k]))
            => /\ ledger[k].status = "PENDING"
               /\ ~Stopped

\* C6: when the orchestrator has left its loop, no discovered task has a row
\* that is neither COMPLETED nor FAILED.
C6_LoopEndsOnlyWhenNothingPending ==
    main_pc \in {"done", "aborted"}
        => \A k \in DiscoveredKeys : ledger[k].status \in {"COMPLETED", "FAILED"}

\* C7: in every state, also after the process was killed mid-task, a row is
\* COMPLETED exactly when all the writes of its task are committed; no part of
\* a task's data is committed without the status.
C7_CompletedIffDataCommitted ==
    \A k \in Keys :
        /\ ledger[k].status = "COMPLETED" => data[k] = RequiredWrites(TaskOf(k))
        /\ data[k] # {} => ledger[k].status = "COMPLETED"

C7_Witness ==
    /\ \E k \in Keys : worker[k].pc = "true" /\ ledger[k].status = "COMPLETED"
    /\ \E j \in Keys : worker[j].pc = "running" /\ worker[j].staged # {}

\* C8: the registration step of get_pending_tasks leaves the status of every
\* existing row as it was.
C8_RegistrationKeepsStatus ==
    [][(main_pc = "loop" /\ main_pc' \in {"executor", "done"})
          => \A k \in Keys :
                ledger[k].status # "NONE" => ledger'[k].status = ledger[k].status]_vars

C8_Witness ==
    /\ main_pc = "done"
    /\ \E k \in DiscoveredKeys : ledger[k].status = "FAILED"
    /\ \E k \in DiscoveredKeys : ledger[k].status = "COMPLETED"

\* C12: when the AS daily quota is exhausted, the AS task that hit it keeps a
\* PENDING row, and the FD tasks and the orchestrator loop go on: the
\* orchestrator does not leave its loop and no task of the sweep is dropped.
C12_QuotaExhaustionLeavesRunAlive ==
    \A k \in Keys :
        worker[k].err = "limit"
            => /\ ledger[k].status = "PENDING"
               /\ ~Stopped
               /\ \A j \in Keys : worker[j].pc # "cancelled"

(* ------------------------------------------------------------------ *)
(* api_call_as called from concurrent threads, with its clock          *)
(* ------------------------------------------------------------------ *)
\* a quiet orchestrator: the state the other variables keep while the
\* callers of one API client are explored on their own
QuietMain ==
    /\ ledger = [k \in Keys |-> NoRow]
    /\ data = [k \in Keys |-> {}]
    /\ all_discovered_tasks = <<>>
    /\ tasks_to_run = <<>>
    /\ main_pc = "start"
    /\ worker = [k \in Keys |-> IdleWorker]

QuietOrchestrator == QuietMain /\ up_program = "populator"

\* the state after module load and create_tables, before any call
InitQuiet == InitGlobals /\ QuietOrchestrator

InitAS == InitGlobals /\ QuietOrchestrator

\* with as_lock: reset the counter when the reset time has passed, raise when
\* the counter has reached the limit, else count the call
ASEnter(c) ==
    /\ as_caller[c] = "idle"
    /\ LET r == as_lock_section(as_request_count, as_daily_reset_time, as_clock)
       IN  /\ as_request_count' = r.count
           /\ as_daily_reset_time' = r.reset
           /\ as_caller' = [as_caller EXCEPT ![c] =
                               IF r.admitted THEN "admitted" ELSE "raised"]
           /\ as_admitted' = (IF r.reset # as_daily_reset_time THEN 0 ELSE as_admitted)
                                + (IF r.admitted THEN 1 ELSE 0)
    /\ UNCHANGED <<as_clock, as_win_start, as_win_count>>
    /\ UNCHANGED <<orch_vars, fd_vars, ext_vars>>

\* http_session.get(...) outside the lock, then time.sleep(6.5) and the return.
\* The observer may start watching a 24 h window at any request.
ASSend(c) ==
    /\ as_caller[c] = "admitted"
    /\ as_caller' = [as_caller EXCEPT ![c] = "idle"]
    /\ \/ /\ as_win_start = -1
          /\ as_win_start' = as_clock
          /\ as_win_count' = 1
       \/ /\ as_win_start' = as_win_start
          /\ as_win_count' =
                IF as_win_start # -1 /\ as_clock < as_win_start + DAY
                       /\ as_win_count <= AS_DAILY_LIMIT
                THEN as_win_count + 1 ELSE as_win_count
    /\ UNCHANGED <<as_vars, as_admitted>>
    /\ UNCHANGED <<orch_vars, fd_vars, ext_vars>>

\* raise Exception("API-Sports 100 requests/day limit exceeded. ..."): the
\* call ends without a request
ASRaise(c) ==
    /\ as_caller[c] = "raised"
    /\ as_caller' = [as_caller EXCEPT ![c] = "idle"]
    /\ UNCHANGED <<as_vars, as_admitted, as_win_start, as_win_count>>
    /\ UNCHANGED <<orch_vars, fd_vars, ext_vars>>

ASTick ==
    /\ as_clock < MaxASClock
    /\ as_clock' = as_clock + 1
    /\ UNCHANGED <<as_request_count, as_daily_reset_time, as_obs_vars>>
    /\ UNCHANGED <<orch_vars, fd_vars, ext_vars>>

NextAS ==
    \/ \E c \in ASCallers : ASEnter(c)
    \/ \E c \in ASCallers : ASSend(c)
    \/ \E c \in ASCallers : ASRaise(c)
    \/ ASTick

SpecAS == InitAS /\ [][NextAS]_vars

\* C10 as claimed: no rolling 24-hour window holds more than 100 AS requests.
C10_AtMostLimitPerRollingDay == as_win_count <= AS_DAILY_LIMIT

\* C10 as amended: between two consecutive resets of the counter at most 100
\* calls are let through to the provider, two resets are more than 24 hours
\* apart, and while the counter stands at the limit and the reset time has not
\* passed a call raises without a request being sent.
C10_AtMostLimitPerCountingPeriod ==
    /\ [](as_admitted <= AS_DAILY_LIMIT)
    /\ [][/\ as_daily_reset_time' # as_daily_reset_time
             => as_daily_reset_time' > as_daily_reset_time + DAY
          /\ (as_request_count >= AS_DAILY_LIMIT /\ as_clock <= as_daily_reset_time)
             => \A c \in ASCallers :
                   as_caller'[c] = "admitted" => as_caller[c] = "admitted"]_vars

C10_Witness ==
    /\ as_request_count = AS_DAILY_LIMIT
    /\ as_admitted = AS_DAILY_LIMIT
    /\ \E c \in ASCallers : as_caller[c] = "raised"

(* ------------------------------------------------------------------ *)
(* KeyRotator and api_call_fd called from concurrent threads           *)
(* ------------------------------------------------------------------ *)
InitFD == InitGlobals /\ QuietOrchestrator

\* tuple order of the PriorityQueue entries (next_free_time, key)
EntryLeq(a, b) == a[1] < b[1] \/ (a[1] = b[1] /\ a[2] <= b[2])

\* queue.put(entry)
RECURSIVE Put(_, _)
Put(q, e) ==
    IF q = <<>> THEN <<e>>
    ELSE IF EntryLeq(e, Head(q)) THEN <<e>> \o q
         ELSE <<Head(q)>> \o Put(Tail(q), e)

release(q, key, t) == Put(q, <<t + FD_RELEASE_COOLDOWN, key>>)

penalize(q, key, t) == Put(q, <<t + FD_PENALTY_COOLDOWN, key>>)

\* what api_call_fd puts back once the response is in: release on success;
\* on 403 and on 429 penalize in the status branch and, the exception it
\* raises being caught by the function's own except-clause, penalize again;
\* on any other exception (HTTP error, timeout) penalize in the except-clause
api_call_fd_puts(q, key, out, t) ==
    IF out = "ok" THEN release(q, key, t)
    ELSE IF out \in {"403", "429"} THEN penalize(penalize(q, key, t), key, t)
    ELSE penalize(q, key, t)

\* get_next: queue.get() blocks until an entry is there and takes the smallest
FDGetNext(c) ==
    /\ fd_caller[c].pc = "idle"
    /\ fd_queue # <<>>
    /\ fd_caller' = [fd_caller EXCEPT ![c] =
                        [pc |-> "waiting", key |-> Head(fd_queue)[2],
                         wake |-> Head(fd_queue)[1]]]
    /\ fd_queue' = Tail(fd_queue)
    /\ UNCHANGED <<fd_clock, fd_win_start, fd_win_key, fd_win_count>>
    /\ UNCHANGED <<orch_vars, as_vars, as_obs_vars, ext_vars>>

\* get_next has slept until next_free_time; http_session.get(...) is sent with
\* the key. The observer may start watching a 60 s window of one key at any
\* request.
FDSend(c) ==
    /\ fd_caller[c].pc = "waiting"
    /\ fd_clock >= fd_caller[c].wake
    /\ fd_caller' = [fd_caller EXCEPT ![c].pc = "inflight"]
    /\ \/ /\ fd_win_start = -1
          /\ fd_win_start' = fd_clock
          /\ fd_win_key' = fd_caller[c].key
          /\ fd_win_count' = 1
       \/ /\ UNCHANGED <<fd_win_start, fd_win_key>>
          /\ fd_win_count' =
                IF /\ fd_win_start # -1
                   /\ fd_win_key = fd_caller[c].key
                   /\ fd_clock < fd_win_start + 60 * 2
                   /\ fd_win_count <= 10
                THEN fd_win_count + 1 ELSE fd_win_count
    /\ UNCHANGED <<fd_clock, fd_queue>>
    /\ UNCHANGED <<orch_vars, as_vars, as_obs_vars, ext_vars>>

\* the response (or the timeout) is in: the key goes back to the queue
FDRespond(c) ==
    /\ fd_caller[c].pc = "inflight"
    /\ \E out \in FDOutcomes :
          fd_queue' = api_call_fd_puts(fd_queue, fd_caller[c].key, out, fd_clock)
    /\ fd_caller' = [fd_caller EXCEPT ![c] = FDIdleCaller]
    /\ UNCHANGED <<fd_clock, fd_win_start, fd_win_key, fd_win_count>>
    /\ UNCHANGED <<orch_vars, as_vars, as_obs_vars, ext_vars>>

\* the times at which something is due
FDEventTimes ==
    {fd_queue[i][1] : i \in 1..Len(fd_queue)}
        \cup {fd_caller[c].wake : c \in {d \in FDCallers : fd_caller[d].pc = "waiting"}}

\* time passes, up to a moment at which something is due
FDTick ==
    /\ \E t \in FDEventTimes :
          /\ t > fd_clock
          /\ t <= MaxFDClock
          /\ fd_clock' = t
    /\ UNCHANGED <<fd_queue, fd_caller, fd_win_start, fd_win_key, fd_win_count>>
    /\ UNCHANGED <<orch_vars, as_vars, as_obs_vars, ext_vars>>

NextFD ==
    \/ \E c \in FDCallers : FDGetNext(c)
    \/ \E c \in FDCallers : FDSend(c)
    \/ \E c \in FDCallers : FDRespond(c)
    \/ FDTick

SpecFD == InitFD /\ [][NextFD]_vars

\* C31: each FD key is either held by exactly one api_call_fd call in progress
\* or present exactly once in the KeyRotator queue; the queue never holds more
\* entries than there are keys.
C31_EachKeyHeldOrQueuedOnce ==
    /\ Len(fd_queue) <= MaxFDKeys
    /\ \A k \in FDKeys :
          Cardinality({i \in 1..Len(fd_queue) : fd_queue[i][2] = k})
              + Cardinality({c \in FDCallers : fd_caller[c].pc # "idle"
                                                  /\ fd_caller[c].key = k}) = 1

\* C9: for every FD key, no 60-second window holds more than 10 requests sent
\* with that key.
C9_AtMostTenPerMinutePerKey == fd_win_count <= 10

(* ------------------------------------------------------------------ *)
(* The pacing of api_call_as: time.sleep(6.5) in the calling thread     *)
(* ------------------------------------------------------------------ *)
InitASM == InitGlobals /\ QuietOrchestrator

\* One call of api_call_as by a worker thread that is not inside a call: the
\* section under as_lock, then the request, then time.sleep(6.5) in that
\* thread. No state is shared between the threads but the daily counter.
\* The observer may start watching a 60 s window at any request.
ASMCall(c) ==
    /\ asm_clock >= asm_caller[c]
    /\ LET r == as_lock_section(as_request_count, as_daily_reset_time, as_clock)
       IN  /\ as_request_count' = r.count
           /\ as_daily_reset_time' = r.reset
           /\ IF r.admitted
              THEN /\ asm_caller' = [asm_caller EXCEPT ![c] = asm_clock + AS_CALL_SLEEP]
                   /\ \/ /\ asm_win_start = -1
                         /\ asm_win_start' = asm_clock
                         /\ asm_win_count' = 1
                      \/ /\ asm_win_start' = asm_win_start
                         /\ asm_win_count' =
                               IF /\ asm_win_start # -1
                                  /\ asm_clock < asm_win_start + MINUTE
                                  /\ asm_win_count <= AS_PER_MINUTE
                               THEN asm_win_count + 1 ELSE asm_win_count
              ELSE UNCHANGED <<asm_caller, asm_win_start, asm_win_count>>
    /\ UNCHANGED <<asm_clock, as_clock>>
    /\ UNCHANGED asm_rest

\* time passes, up to the moment a sleeping thread wakes
ASMTick ==
    /\ \E c \in ASMCallers :
          /\ asm_caller[c] > asm_clock
          /\ asm_caller[c] <= MaxASMClock
          /\ asm_clock' = asm_caller[c]
    /\ UNCHANGED <<asm_caller, asm_win_start, asm_win_count>>
    /\ UNCHANGED <<as_vars, asm_rest>>

NextASM ==
    \/ \E c \in ASMCallers : ASMCall(c)
    \/ ASMTick

SpecASM == InitASM /\ [][NextASM]_vars

\* C11: with concurrent worker threads calling api_call_as, no 60-second
\* window holds more than 10 AS requests.
C11_AtMostTenPerMinute == asm_win_count <= AS_PER_MINUTE

(* ------------------------------------------------------------------ *)
(* The HTTP helpers with a retry loop: async_get (src/sync.py) and      *)
(* fetch_api (src/fetch.py)                                             *)
(* ------------------------------------------------------------------ *)
\* what the provider can answer to one HTTP attempt: a 200 with data, a 200
\* whose body carries "errors", 403, 429, another 4xx, a 5xx of the retried
\* list (500, 502, 503, 504), a timeout, a network error
Answers == {"200", "200_errors", "403", "429", "404", "500", "timeout", "network"}

RECURSIVE Pow2(_)
Pow2(n) == IF n = 0 THEN 1 ELSE 2 * Pow2(n - 1)

Return(res) == [next |-> "return", result |-> res, sleep |-> 0]

Continue(sec) == [next |-> "continue", result |-> "none", sleep |-> sec]

\* one iteration of async_get's for loop
async_get_attempt(attempt, answer) ==
    IF answer = "403" THEN Return("None")
    ELSE IF answer = "429"
         THEN Continue(POLLER_RETRY_SLEEP_SECONDS * Pow2(attempt))
    ELSE IF answer = "200" THEN Return("data")
    ELSE IF answer = "200_errors" THEN Return("None")
    ELSE \* raise_for_status, aiohttp.ClientError, asyncio.TimeoutError
         IF attempt < MAX_RETRIES - 1
         THEN Continue(POLLER_RETRY_SLEEP_SECONDS * Pow2(attempt))
         ELSE Continue(0)

fetch_api_attempt_Retry403(attempt, answer, jitter) ==
    IF answer = "429" THEN Continue(Pow2(attempt) + jitter)
    ELSE IF answer \in {"200", "200_errors"} THEN Return("data")
    ELSE IF answer \in {"403", "500"} /\ attempt < retries - 1 THEN Continue(Pow2(attempt))
    ELSE IF answer \in {"403", "404", "500"} THEN Return("{}")
    ELSE IF attempt < retries - 1 THEN Continue(Pow2(attempt))
    ELSE Return("{}")

\* one iteration of fetch_api's for loop; jitter is random.uniform(0, 1)
fetch_api_attempt(attempt, answer, jitter) ==
    IF answer = "429" THEN Continue(Pow2(attempt) + jitter)
    ELSE IF answer \in {"200", "200_errors"} THEN Return("data")
    ELSE IF answer = "500" /\ attempt < retries - 1 THEN Continue(Pow2(attempt))
    ELSE IF answer \in {"403", "404", "500"} THEN Return("{}")
    ELSE \* requests.exceptions.RequestException
         IF attempt < retries - 1 THEN Continue(Pow2(attempt))
         ELSE Return("{}")

LoopLimit_OneMore(fn) == IF fn = "async_get" THEN MAX_RETRIES + 1 ELSE retries + 1

\* range(n) is used up after the iteration with attempt = n - 1
LoopLimit(fn) == IF fn = "async_get" THEN MAX_RETRIES ELSE retries

\* the value returned when the for loop runs out
Exhausted(fn) == IF fn = "async_get" THEN "None" ELSE "{}"

InitRQ == InitGlobals /\ QuietOrchestrator

\* a caller calls the helper
RQCall ==
    /\ rq_pc \in {"idle", "returned"}
    /\ rq_fn' \in {"async_get", "fetch_api"}
    /\ rq_attempt' = 0
    /\ rq_log' = <<>>
    /\ rq_pc' = "loop"
    /\ rq_result' = "none"
    /\ rq_slept' = 0
    /\ UNCHANGED rq_rest

\* one iteration of the for loop: the HTTP attempt, its answer, and what the
\* loop body does with it; the return after the loop when the range is used up
RQAttempt ==
    /\ rq_pc = "loop"
    /\ \E answer \in Answers, jitter \in {0, 1} :
          LET step == IF rq_fn = "async_get"
                      THEN async_get_attempt(rq_attempt, answer)
                      ELSE fetch_api_attempt(rq_attempt, answer, jitter)
              over == step.next = "continue" /\ rq_attempt + 1 >= LoopLimit(rq_fn)
          IN  /\ rq_log' = Append(rq_log, answer)
              /\ rq_slept' = rq_slept + step.sleep
              /\ rq_attempt' = IF step.next = "continue" /\ ~over
                               THEN rq_attempt + 1 ELSE rq_attempt
              /\ rq_pc' = IF step.next = "continue" /\ ~over THEN "loop" ELSE "returned"
              /\ rq_result' = IF step.next = "return" THEN step.result
                              ELSE IF over THEN Exhausted(rq_fn) ELSE "none"
    /\ UNCHANGED rq_fn
    /\ UNCHANGED rq_rest

NextRQ == RQCall \/ RQAttempt

SpecRQ == InitRQ /\ [][NextRQ]_vars

\* C13: in async_get and in fetch_api a 403 answer ends the call at once with
\* a failure result: it is the last HTTP attempt of the call.
C13_ForbiddenEndsTheCall ==
    \A i \in 1..Len(rq_log) :
        rq_log[i] = "403"
            => /\ i = Len(rq_log)
               /\ rq_pc = "returned"
               /\ rq_result = Exhausted(rq_fn)

C13_Witness ==
    /\ rq_fn = "fetch_api"
    /\ rq_log = <<"429", "403">>
    /\ rq_pc = "returned"

\* C14: every call makes at most 3 HTTP attempts; a call whose last attempt
\* was answered 429, 5xx, a timeout or a network error has made all 3 and has
\* returned the failure result; after the third attempt the call has returned.
C14_AtMostThreeAttempts ==
    /\ Len(rq_log) <= 3
    /\ Len(rq_log) = 3 => rq_pc = "returned"
    /\ (rq_pc = "returned"
          /\ rq_log[Len(rq_log)] \in {"429", "500", "timeout", "network"})
        => /\ Len(rq_log) = 3
           /\ rq_result = Exhausted(rq_fn)

C14_Witness ==
    /\ rq_fn = "fetch_api"
    /\ rq_log = <<"500", "timeout", "500">>
    /\ rq_pc = "returned"
    /\ rq_result = "{}"

(* ------------------------------------------------------------------ *)
(* The upsert layer: upsert_teams and upsert_matches_basic of the       *)
(* populator, update_fixtures_db of the poller (src/sync.py). Each      *)
(* program writes the tables of its own schema. Ids are positive; 0     *)
(* stands for None / NULL in an id or integer column.                   *)
(* ------------------------------------------------------------------ *)
\* the other team of a match
Opponent(t) == 3 - t

\* COALESCE(a, b) on an id column
Coalesce(a, b) == IF a # 0 THEN a ELSE b

SeqsUpTo(S, n) == UNION {[1..k -> S] : k \in 0..n}

HasDuplicateIds(rows) ==
    \E i, j \in 1..Len(rows) : i < j /\ rows[i].id = rows[j].id

\* a team object of the provider (FD format): founded stands for the detail
\* columns of teams, 0 when the object does not carry them
TeamDicts == [id : TeamIds, founded : {0, 1900}]

\* a match object of the provider (FD format); one object without an id
MatchDicts ==
    [id : MatchIds, status : {"SCHEDULED", "FINISHED"}, home : TeamIds]
        \cup {[id |-> 0, status |-> "SCHEDULED", home |-> 1]}

\* a fixture object of the provider (AS format); one object that lacks a
\* required field
FixtureDicts ==
    [ok : {TRUE}, id : FixtureIds, status : {"NS", "FT"}, home : TeamIds]
        \cup {[ok |-> FALSE, id |-> 0, status |-> "NS", home |-> 1]}

\* upsert_teams: unique_teams keeps the last object of every id; every
\* column is set from the incoming row, on insert and on conflict
upsert_teams(teams, teams_data) ==
    LET Idx(t) == {i \in 1..Len(teams_data) : teams_data[i].id = t}
        Last(t) == teams_data[CHOOSE i \in Idx(t) : \A j \in Idx(t) : j <= i]
    IN  [t \in TeamIds |->
            IF Idx(t) # {}
            THEN [exists |-> TRUE, founded |-> Last(t).founded]
            ELSE teams[t]]

StubTeams_HomeOnly(values) ==
    [i \in 1..Len(values) |-> [id |-> values[i].home, founded |-> 0]]

\* teams_to_upsert of upsert_matches_basic: the homeTeam and awayTeam objects
\* of the matches, which carry id and name only
StubTeams(values) ==
    [i \in 1..(2 * Len(values)) |->
        IF i % 2 = 1
        THEN [id |-> values[(i + 1) \div 2].home, founded |-> 0]
        ELSE [id |-> Opponent(values[i \div 2].home), founded |-> 0]]

ConflictMatchRow_DetailsTrue(old, m) ==
    [exists |-> TRUE, status |-> m.status, home |-> m.home,
     away |-> Opponent(m.home), details_populated |-> TRUE]

\* ON CONFLICT (match_id) DO UPDATE SET ... = EXCLUDED. ..., details_populated = FALSE
ConflictMatchRow(old, m) ==
    [exists |-> TRUE, status |-> m.status, home |-> m.home,
     away |-> Opponent(m.home), details_populated |-> FALSE]

InsertMatchRow(m) ==
    [exists |-> TRUE, status |-> m.status, home |-> m.home,
     away |-> Opponent(m.home), details_populated |-> FALSE]

\* the teams a match row refers to are rows of teams (REFERENCES teams(team_id))
TeamsExist(teams, row) ==
    /\ row.home # 0 => teams[row.home].exists
    /\ row.away # 0 => teams[row.away].exists

\* upsert_matches_basic followed by the caller's commit, or by its rollback
\* when a statement raises
upsert_matches_basic(teams, matches, matches_data) ==
    LET values == SelectSeq(matches_data, LAMBDA m : m.id # 0)
        teams1 == upsert_teams(teams, StubTeams(values))
        Row(m) == LET v == CHOOSE i \in 1..Len(values) : values[i].id = m
                  IN  IF matches[m].exists
                      THEN ConflictMatchRow(matches[m], values[v])
                      ELSE InsertMatchRow(values[v])
        matches1 == [m \in MatchIds |->
                        IF \E i \in 1..Len(values) : values[i].id = m
                        THEN Row(m) ELSE matches[m]]
    IN  IF values = <<>>
        THEN [teams |-> teams, matches |-> matches, outcome |-> "ok"]
        ELSE IF HasDuplicateIds(values)
        THEN [teams |-> teams, matches |-> matches, outcome |-> "cardinality_violation"]
        ELSE IF \E m \in MatchIds : matches1[m].exists /\ ~TeamsExist(teams1, matches1[m])
        THEN [teams |-> teams, matches |-> matches, outcome |-> "fk_violation"]
        ELSE [teams |-> teams1, matches |-> matches1, outcome |-> "ok"]

\* teams_to_upsert of update_fixtures_db: the first object seen of every team;
\* INSERT ... ON CONFLICT (team_id) DO UPDATE SET name = COALESCE(EXCLUDED.name,
\* teams.name), ...: of a team row the model keeps that it exists
upsert_fixture_teams(teams, fixtures_data) ==
    LET ids == UNION {{fixtures_data[i].home, Opponent(fixtures_data[i].home)} :
                         i \in 1..Len(fixtures_data)}
    IN  [t \in TeamIds |-> IF t \in ids THEN [exists |-> TRUE] ELSE teams[t]]

FixtureRow_Overwrite(old, f) ==
    [exists |-> TRUE, status |-> f.status, home |-> f.home, away |-> Opponent(f.home)]

\* INSERT INTO fixtures ... ON CONFLICT (fixture_id) DO UPDATE SET
\* status_short = EXCLUDED.status_short, ...,
\* home_team_id = COALESCE(fixtures.home_team_id, EXCLUDED.home_team_id), ...
FixtureRow(old, f) ==
    IF old.exists
    THEN [exists |-> TRUE, status |-> f.status,
          home |-> Coalesce(old.home, f.home),
          away |-> Coalesce(old.away, Opponent(f.home))]
    ELSE [exists |-> TRUE, status |-> f.status, home |-> f.home,
          away |-> Opponent(f.home)]

\* update_fixtures_db: transform_fixture_data raises KeyError on a fixture
\* that lacks a required field, in the loop that precedes the try block; the
\* statements run in one transaction, committed at the end or rolled back by
\* the except-clause
update_fixtures_db(teams, fixtures, fixtures_data) ==
    LET teams1 == upsert_fixture_teams(teams, fixtures_data)
        Row(f) == LET v == CHOOSE i \in 1..Len(fixtures_data) : fixtures_data[i].id = f
                  IN  FixtureRow(fixtures[f], fixtures_data[v])
        fixtures1 == [f \in FixtureIds |->
                         IF \E i \in 1..Len(fixtures_data) : fixtures_data[i].id = f
                         THEN Row(f) ELSE fixtures[f]]
    IN  IF fixtures_data = <<>>
        THEN [teams |-> teams, fixtures |-> fixtures, outcome |-> "ok"]
        ELSE IF \E i \in 1..Len(fixtures_data) : ~fixtures_data[i].ok
        THEN [teams |-> teams, fixtures |-> fixtures, outcome |-> "raised"]
        ELSE IF HasDuplicateIds(fixtures_data)
        THEN [teams |-> teams, fixtures |-> fixtures, outcome |-> "rolled_back"]
        ELSE IF \E f \in FixtureIds : fixtures1[f].exists /\ ~TeamsExist(teams1, fixtures1[f])
        THEN [teams |-> teams, fixtures |-> fixtures, outcome |-> "rolled_back"]
        ELSE [teams |-> teams1, fixtures |-> fixtures1, outcome |-> "ok"]

\* what a batch says about each fixture: its last well-formed object of that id
Asked(fixtures_data) ==
    [f \in FixtureIds |->
        LET Idx == {i \in 1..Len(fixtures_data) :
                       fixtures_data[i].ok /\ fixtures_data[i].id = f}
        IN  IF Idx = {} THEN Absent
            ELSE LET d == fixtures_data[CHOOSE i \in Idx : \A j \in Idx : j <= i]
                 IN  [exists |-> TRUE, status |-> d.status, home |-> d.home,
                      away |-> Opponent(d.home)]]

InitUP ==
    /\ InitGlobals
    /\ QuietMain
    /\ up_program \in {"populator", "sync"}

\* the populator upserts a teams payload and commits
UpsertTeams ==
    /\ up_program = "populator"
    /\ \E teams_data \in SeqsUpTo(TeamDicts, MaxBatch) :
          LET t1 == upsert_teams(bk_teams, teams_data)
              t2 == upsert_teams(t1, teams_data)
          IN  /\ bk_teams' = t1
              /\ up_again' = [teams |-> t2, matches |-> bk_matches,
                              fx_teams |-> fx_teams, fixtures |-> fx_fixtures]
    /\ up_outcome' = "ok"
    /\ UNCHANGED <<up_program, bk_matches, fx_teams, fx_fixtures, up_asked, up_malformed>>
    /\ UNCHANGED up_rest

\* the populator upserts a matches payload and commits, or rolls back
UpsertMatchesBasic ==
    /\ up_program = "populator"
    /\ \E matches_data \in SeqsUpTo(MatchDicts, MaxBatch) :
          LET r1 == upsert_matches_basic(bk_teams, bk_matches, matches_data)
              r2 == upsert_matches_basic(r1.teams, r1.matches, matches_data)
          IN  /\ bk_teams' = r1.teams
              /\ bk_matches' = r1.matches
              /\ up_outcome' = r1.outcome
              /\ up_again' = [teams |-> r2.teams, matches |-> r2.matches,
                              fx_teams |-> fx_teams, fixtures |-> fx_fixtures]
    /\ UNCHANGED <<up_program, fx_teams, fx_fixtures, up_asked, up_malformed>>
    /\ UNCHANGED up_rest

\* the poller upserts the fixtures fetched for a date
UpdateFixturesDb ==
    /\ up_program = "sync"
    /\ \E fixtures_data \in SeqsUpTo(FixtureDicts, MaxBatch) :
          LET r1 == update_fixtures_db(fx_teams, fx_fixtures, fixtures_data)
              r2 == update_fixtures_db(r1.teams, r1.fixtures, fixtures_data)
          IN  /\ fx_teams' = r1.teams
              /\ fx_fixtures' = r1.fixtures
              /\ up_outcome' = r1.outcome
              /\ up_again' = [teams |-> bk_teams, matches |-> bk_matches,
                              fx_teams |-> r2.teams, fixtures |-> r2.fixtures]
              /\ up_asked' = Asked(fixtures_data)
              /\ up_malformed' = \E i \in 1..Len(fixtures_data) : ~fixtures_data[i].ok
    /\ UNCHANGED <<up_program, bk_teams, bk_matches>>
    /\ UNCHANGED up_rest

NextUP ==
    \/ UpsertTeams
    \/ UpsertMatchesBasic
    \/ UpdateFixturesDb

SpecUP == InitUP /\ [][NextUP]_vars

C17_EveryColumnFromLatestPayload ==
    (up_program = "sync" /\ up_outcome = "ok")
        => \A f \in FixtureIds : up_asked[f].exists => fx_fixtures[f] = up_asked[f]

\* C17 as amended: after a fixture is upserted from a later payload, its
\* status and result columns equal the payload's values, and each reference
\* column (league, season, home team, away team, venue) keeps the value the
\* row already held, taking the payload's value only where the row held NULL
\* or did not exist.
C17_ReferencesKeepFirstValue ==
    [][(up_program = "sync" /\ up_outcome' = "ok")
          => \A f \in FixtureIds :
                up_asked'[f].exists
                    => /\ fx_fixtures'[f].exists
                       /\ fx_fixtures'[f].status = up_asked'[f].status
                       /\ fx_fixtures'[f].home =
                             IF fx_fixtures[f].exists
                             THEN Coalesce(fx_fixtures[f].home, up_asked'[f].home)
                             ELSE up_asked'[f].home
                       /\ fx_fixtures'[f].away =
                             IF fx_fixtures[f].exists
                             THEN Coalesce(fx_fixtures[f].away, up_asked'[f].away)
                             ELSE up_asked'[f].away]_vars

C17_Witness ==
    /\ up_program = "sync"
    /\ up_outcome = "ok"
    /\ \E f \in FixtureIds :
          /\ up_asked[f].exists
          /\ fx_fixtures[f].status = up_asked[f].status
          /\ fx_fixtures[f].home = Opponent(up_asked[f].home)

\* C18: every committed match row and fixture row refers to teams that are
\* rows of the teams table, and no upsert ends in a foreign-key violation:
\* the teams that were missing are created as stub rows by the same call.
C18_TeamsOfCommittedMatchesExist ==
    /\ \A m \in MatchIds : bk_matches[m].exists => TeamsExist(bk_teams, bk_matches[m])
    /\ \A f \in FixtureIds : fx_fixtures[f].exists => TeamsExist(fx_teams, fx_fixtures[f])
    /\ up_outcome # "fk_violation"

C18_Witness ==
    /\ up_program = "populator"
    /\ up_outcome = "ok"
    /\ \E m \in MatchIds :
          /\ bk_matches[m].exists
          /\ bk_teams[bk_matches[m].home] = [exists |-> TRUE, founded |-> 0]
          /\ bk_teams[bk_matches[m].away] = [exists |-> TRUE, founded |-> 0]

\* C19: when a batch holds malformed rows and valid rows, the valid rows are
\* committed: every fixture the batch has a well-formed object for is stored
\* with the status that object carries.
C19_ValidRowsOfBatchCommitted ==
    (up_program = "sync" /\ up_malformed)
        => \A f \in FixtureIds :
              up_asked[f].exists
                  => /\ fx_fixtures[f].exists
                     /\ fx_fixtures[f].status = up_asked[f].status

(* ------------------------------------------------------------------ *)
(* upsert_standings of the populator, for one competition and season.   *)
(* A standings_lists row is [stage, group]; type is "TOTAL" throughout. *)
(* standings_list_id is the row's position in st_lists.                 *)
(* ------------------------------------------------------------------ *)
\* a row of a standing's table: the team object and the figures
RowDicts == [team : TeamIds, points : {0, 3}]

\* a standing of the provider's response (FD format)
StandingDicts ==
    [stage : {"NULL", "REGULAR_SEASON"}, group : {"NULL", "GROUP_A"},
     table : SeqsUpTo(RowDicts, 1)]

\* equality as a unique index sees it: NULL is distinct from every value,
\* NULL included
SqlEq(a, b) == a # "NULL" /\ b # "NULL" /\ a = b

\* UNIQUE (competition_id, season_year, type, stage, group_name): the rows
\* the INSERT of a standing conflicts with
Conflicting(lists, s) ==
    {i \in 1..Len(lists) :
        SqlEq(lists[i].stage, s.stage) /\ SqlEq(lists[i].group, s.group)}

\* upsert_standings: for every standing the INSERT ... ON CONFLICT ...
\* RETURNING standings_list_id, then the stub teams of its table, then its
\* rows with ON CONFLICT (standings_list_id, team_id) DO UPDATE
RECURSIVE upsert_standings(_, _, _, _)
upsert_standings(lists, rows, teams, standings_data) ==
    IF standings_data = <<>>
    THEN [lists |-> lists, rows |-> rows, teams |-> teams]
    ELSE LET s == Head(standings_data)
             hit == Conflicting(lists, s)
             lists1 == IF hit = {}
                       THEN Append(lists, [stage |-> s.stage, group |-> s.group])
                       ELSE lists
             standings_list_id == IF hit = {} THEN Len(lists) + 1
                                  ELSE CHOOSE i \in hit : TRUE
             teams_to_upsert == [i \in 1..Len(s.table) |->
                                    [id |-> s.table[i].team, founded |-> 0]]
             teams1 == upsert_teams(teams, teams_to_upsert)
             rows1 == [k \in ListIds \X TeamIds |->
                          IF /\ k[1] = standings_list_id
                             /\ \E i \in 1..Len(s.table) : s.table[i].team = k[2]
                          THEN s.table[CHOOSE i \in 1..Len(s.table) :
                                          s.table[i].team = k[2]].points
                          ELSE rows[k]]
         IN  upsert_standings(lists1, rows1, teams1, Tail(standings_data))

InitST == InitGlobals /\ QuietOrchestrator

\* the populator upserts a standings response and commits
UpsertStandings ==
    /\ up_program = "populator"
    /\ \E standings_data \in SeqsUpTo(StandingDicts, MaxBatch) :
          /\ Len(st_lists) + Len(standings_data) <= MaxLists
          /\ LET r == upsert_standings(st_lists, st_rows, bk_teams, standings_data)
             IN  /\ st_lists' = r.lists
                 /\ st_rows' = r.rows
                 /\ bk_teams' = r.teams
    /\ UNCHANGED <<up_program, bk_matches, fx_teams, fx_fixtures,
                   up_outcome, up_again, up_asked, up_malformed>>
    /\ UNCHANGED st_rest

NextST == UpsertStandings

SpecST == InitST /\ [][NextST]_vars

\* C16: standings_lists holds one row per (competition_id, season_year, type,
\* stage, group_name), also when stage or group_name is NULL, however often a
\* standings payload is upserted.
C16_OneListPerKey ==
    \A i, j \in 1..Len(st_lists) :
        (st_lists[i].stage = st_lists[j].stage /\ st_lists[i].group = st_lists[j].group)
            => i = j

(* ------------------------------------------------------------------ *)
(* Local IDs: entities of the primary provider (FD) keep their native   *)
(* id, entities of the secondary provider (AS) are mapped by the        *)
(* populator's discovery and transformers. id_rows records every        *)
(* entity written: its kind, its local id, its provider, its native id. *)
(* ------------------------------------------------------------------ *)
\* set(FD_AS_LEAGUE_MAP.values()): the AS leagues that FD covers
fd_as_ids_to_skip == {39, 2, 78, 135, 140, 61, 88, 218, 390, 1, 4, 40, 13}

\* ids the primary provider can issue: the code takes any id it is sent
FDNatives == (1..MaxNative) \cup {AS_ID_OFFSET + 1}

\* ids the secondary provider can issue
ASNatives == {1} \cup {2 + n : n \in 1..MaxNative}

as_local_id_NoOffset(native) == native

\* team["id"] + AS_ID_OFFSET, fixture["id"] + AS_ID_OFFSET,
\* as_league["id"] + AS_ID_OFFSET
as_local_id(native) == native + AS_ID_OFFSET

FDRow(kind, native) ==
    [kind |-> kind, id |-> native, provider |-> "FD", native |-> native]

ASRow(kind, native) ==
    [kind |-> kind, id |-> as_local_id(native), provider |-> "AS", native |-> native]

InitID == InitGlobals /\ QuietOrchestrator

\* upsert_competitions, upsert_teams, upsert_matches_basic on an FD payload
StoreFD ==
    /\ \E kind \in {"competition", "team", "match"}, native \in FDNatives :
          id_rows' = id_rows \cup {FDRow(kind, native)}
    /\ UNCHANGED id_rest

\* discover_as_tasks: a league without id, or one that FD covers, is skipped
StoreASCompetition ==
    /\ \E native \in ASNatives \cup {0} :
          id_rows' = IF native = 0 \/ native \in fd_as_ids_to_skip
                     THEN id_rows
                     ELSE id_rows \cup {ASRow("competition", native)}
    /\ UNCHANGED id_rest

\* transform_as_teams and upsert_teams: a team without id is skipped
StoreASTeam ==
    /\ \E native \in ASNatives \cup {0} :
          id_rows' = IF native = 0 THEN id_rows
                     ELSE id_rows \cup {ASRow("team", native)}
    /\ UNCHANGED id_rest

\* transform_as_matches and upsert_matches_basic: a fixture without id is
\* skipped; the stub of its home team takes teams.home.get("id", 0) + AS_ID_OFFSET
StoreASMatch ==
    /\ \E native \in ASNatives \cup {0}, home \in ASNatives \cup {0} :
          id_rows' = IF native = 0 THEN id_rows
                     ELSE id_rows \cup {ASRow("match", native), ASRow("team", home)}
    /\ UNCHANGED id_rest

NextID ==
    \/ StoreFD
    \/ StoreASCompetition
    \/ StoreASTeam
    \/ StoreASMatch

SpecID == InitID /\ [][NextID]_vars

FD_AS_LEAGUE_MAP ==
    "PL" :> 39 @@ "CL" :> 2 @@ "BL1" :> 78 @@ "SA" :> 135 @@ "PD" :> 140 @@
    "FL1" :> 61 @@ "DED" :> 88 @@ "PPL" :> 218 @@ "BSA" :> 390 @@ "WC" :> 1 @@
    "EC" :> 4 @@ "ELC" :> 40 @@ "CLI" :> 13

FREE_CODES ==
    {"BSA", "BL1", "CL", "DED", "EC", "FL1", "PD", "PL", "PPL", "SA", "WC",
     "ELC", "CLI"}

\* what GET competitions of the primary provider can list
FDCatalogue == {[id |-> 2021, code |-> "PL"], [id |-> 2055, code |-> "FAC"]}

\* the items GET /leagues of the secondary provider can hold: the league's id
\* (0: no id) and whether its name, type and logo are all there
ASItems ==
    {[id |-> 39, complete |-> TRUE], [id |-> 3, complete |-> TRUE],
     [id |-> 3, complete |-> FALSE], [id |-> 7, complete |-> TRUE]}

\* FD_AS_LEAGUE_MAP.get(comp_code); 0 stands for None
AliasOf(code) ==
    IF code \in DOMAIN FD_AS_LEAGUE_MAP THEN FD_AS_LEAGUE_MAP[code] ELSE 0

Skipped_OnlyMissing(id) == id = 0

\* if not as_league.get("id") or as_league["id"] in fd_as_ids_to_skip: continue
Skipped(id) == id = 0 \/ id \in fd_as_ids_to_skip

CompRow(id, code, alias) == [id |-> id, code |-> code, as_competition_id |-> alias]

\* ON CONFLICT (competition_id) DO UPDATE: one row per competition_id
upsert_competitions(table, rows) ==
    {r \in table : \A n \in rows : n.id # r.id} \cup rows

TaskRow(comp, year, type) == [comp_id |-> comp, year |-> year, task_type |-> type]

\* the for loop over the items of one season: <<staged rows, tasks, raised>>
RECURSIVE SeasonLoop(_, _, _, _)
SeasonLoop(items, season, staged, tasks) ==
    IF items = <<>> THEN <<staged, tasks, FALSE>>
    ELSE LET it == Head(items) IN
         IF Skipped(it.id)
         THEN SeasonLoop(Tail(items), season, staged, tasks)
         ELSE IF ~it.complete
         THEN <<staged, tasks, TRUE>>
         ELSE SeasonLoop(Tail(items), season,
                  staged \cup {CompRow(as_local_id(it.id), "AS", it.id)},
                  tasks \cup {TaskRow(as_local_id(it.id), season, "AS")})

\* discover_fd_tasks: the free competitions are upserted and committed with
\* their alias, then a task is listed for those whose seasons could be read;
\* a failure before the commit returns no task
DiscoverFD ==
    /\ ds_pc = "fd"
    /\ \E listed \in SUBSET FDCatalogue, ok \in BOOLEAN :
          LET free == {c \in listed : c.code \in FREE_CODES}
              rows == {CompRow(c.id, c.code, AliasOf(c.code)) : c \in free}
          IN \E seasoned \in SUBSET free :
                /\ ds_comps' = IF ok THEN upsert_competitions(ds_comps, rows)
                               ELSE ds_comps
                /\ ds_tasks' = IF ok
                               THEN {TaskRow(c.id, AS_SEASONS[1], "FD") : c \in seasoned}
                               ELSE {}
    /\ ds_pc' = "as"
    /\ UNCHANGED <<ds_season, ds_matches, ds_listed, ds_rest>>

\* discover_as_tasks, one season of its loop: the leagues FD does not cover
\* get a task at once and a competitions row at the end of the season
DiscoverASSeason ==
    /\ ds_pc = "as"
    /\ \E items \in SeqsUpTo(ASItems, MaxLeagues), db_ok \in BOOLEAN :
          LET season == AS_SEASONS[ds_season]
              loop == SeasonLoop(items, season, {}, {})
          IN /\ ds_tasks' = ds_tasks \cup loop[2]
             /\ ds_comps' = IF ~loop[3] /\ db_ok
                            THEN upsert_competitions(ds_comps, loop[1])
                            ELSE ds_comps
             /\ ds_listed' = ds_listed \cup {items[i].id : i \in 1..Len(items)}
    /\ IF ds_season = Len(AS_SEASONS)
       THEN ds_pc' = "run" /\ ds_season' = ds_season
       ELSE ds_pc' = "as" /\ ds_season' = ds_season + 1
    /\ UNCHANGED <<ds_matches, ds_rest>>

\* discover_as_tasks when api_call_as reports the daily limit: the handler
\* raises in its turn and the function returns an empty list
DiscoverASLimit ==
    /\ ds_pc = "as"
    /\ ds_tasks' = {t \in ds_tasks : t.task_type = "FD"}
    /\ ds_pc' = "run"
    /\ UNCHANGED <<ds_season, ds_comps, ds_matches, ds_listed, ds_rest>>

\* process_season_task_fd / process_season_task_as: the matches of the task's
\* league are stored under the task's competition id; the foreign key of
\* matches.competition_id makes the transaction fail when that row is missing
ProcessSeasonTask ==
    /\ ds_pc = "run"
    /\ \E t \in ds_tasks, native \in 1..MaxNative :
          LET league == IF t.task_type = "AS" THEN t.comp_id - AS_ID_OFFSET
                        ELSE t.comp_id
              row == [id |-> IF t.task_type = "AS" THEN as_local_id(native)
                             ELSE native,
                      competition_id |-> t.comp_id,
                      provider |-> t.task_type,
                      league |-> league]
          IN ds_matches' =
                IF \E c \in ds_comps : c.id = t.comp_id
                THEN {m \in ds_matches : m.id # row.id} \cup {row}
                ELSE ds_matches
    /\ UNCHANGED <<ds_pc, ds_season, ds_comps, ds_tasks, ds_listed, ds_rest>>

NextDS ==
    \/ DiscoverFD
    \/ DiscoverASSeason
    \/ DiscoverASLimit
    \/ ProcessSeasonTask

SpecDS == InitQuiet /\ [][NextDS]_vars

\* the matches stored for the league that FD lists under this code
MatchesOfLeague(code) ==
    {m \in ds_matches :
        \/ m.provider = "AS" /\ m.league = FD_AS_LEAGUE_MAP[code]
        \/ m.provider = "FD" /\ \E c \in FDCatalogue : c.id = m.league /\ c.code = code}

C30_TasksHaveCommittedCompetition ==
    ds_pc = "run" => \A t \in ds_tasks : \E r \in ds_comps : r.id = t.comp_id

(* ------------------------------------------------------------------ *)
(* One fixture item of the AS endpoint /fixtures, and what the poller   *)
(* (sync.transform_fixture_data), the backfill                           *)
(* (populator.transform_as_matches) and the CSV converter                *)
(* (offline_csv_converter.process_fd_api_csv) derive from it.            *)
(* ------------------------------------------------------------------ *)
\* Python's None in a numeric field, and a value int() cannot convert
None == -1

Garbled == -2

GoalValues == {None, Garbled} \cup (0..MaxGoals)

ExtraTimeValues == {None, 0, 1}

PenaltyValues == {None, 4, 5}

Payloads ==
    [id : 1..MaxNative, league : {3}, home : {1}, away : {2},
     goals_home : GoalValues, goals_away : GoalValues,
     et_home : ExtraTimeValues, et_away : ExtraTimeValues,
     pen_home : PenaltyValues, pen_away : PenaltyValues]

\* db_utils.safe_int
safe_int(value) == IF value = None \/ value = Garbled THEN None ELSE value

\* offline_csv_converter.safe_int(value, default)
safe_int_csv(value, default) ==
    IF value = None \/ value = Garbled THEN default ELSE value

\* Python's (x or 0)
OrZero(x) == IF x = None THEN 0 ELSE x

PyBool(b) == IF b THEN "True" ELSE "False"

\* sync.transform_fixture_data
transform_fixture_data(fixture) ==
    LET goals_home == safe_int(fixture.goals_home)
        goals_away == safe_int(fixture.goals_away)
        both == goals_home # None /\ goals_away # None
        score_et_home == safe_int(fixture.et_home)
        score_et_away == safe_int(fixture.et_away)
    IN [done |-> TRUE,
        fixture_id |-> fixture.id,
        home_winner |-> IF both THEN PyBool(goals_home > goals_away) ELSE "None",
        away_winner |-> IF both THEN PyBool(goals_away > goals_home) ELSE "None",
        goals_home |-> OrZero(goals_home) + OrZero(score_et_home),
        goals_away |-> OrZero(goals_away) + OrZero(score_et_away),
        score_pen_home |-> safe_int(fixture.pen_home),
        score_pen_away |-> safe_int(fixture.pen_away),
        league_id |-> fixture.league,
        home_team_id |-> fixture.home,
        away_team_id |-> fixture.away]

\* populator.transform_as_matches, for one item of the list
transform_as_matches(m, competition_id_offset) ==
    [done |-> TRUE,
     id |-> as_local_id(m.id),
     competition_id |-> competition_id_offset,
     homeTeam |-> as_local_id(m.home),
     awayTeam |-> as_local_id(m.away)]

\* offline_csv_converter.process_fd_api_csv: "Compute Scores and Winners"
process_fd_api_csv(row) ==
    LET ft_home == safe_int_csv(row.goals_home, 0)
        ft_away == safe_int_csv(row.goals_away, 0)
        et_home_val == safe_int_csv(row.et_home, None)
        et_away_val == safe_int_csv(row.et_away, None)
        pen_home_val == safe_int_csv(row.pen_home, None)
        pen_away_val == safe_int_csv(row.pen_away, None)
        total_home == ft_home + (IF et_home_val # None THEN et_home_val ELSE 0)
        total_away == ft_away + (IF et_away_val # None THEN et_away_val ELSE 0)
        winners ==
            IF total_home > total_away THEN <<TRUE, FALSE>>
            ELSE IF total_home < total_away THEN <<FALSE, TRUE>>
            ELSE IF pen_home_val # None /\ pen_away_val # None
                 THEN IF pen_home_val > pen_away_val THEN <<TRUE, FALSE>>
                      ELSE IF pen_home_val < pen_away_val THEN <<FALSE, TRUE>>
                      ELSE <<FALSE, FALSE>>
                 ELSE <<FALSE, FALSE>>
    IN [done |-> TRUE,
        home_winner |-> PyBool(winners[1]),
        away_winner |-> PyBool(winners[2]),
        goals_home |-> total_home,
        goals_away |-> total_away]

\* the provider answers with a fixture
ReceiveFixture ==
    /\ tf_payload = Absent
    /\ tf_payload' \in Payloads
    /\ UNCHANGED <<tf_poller, tf_backfill, tf_csv, tf_rest>>

\* the poller transforms it (update_fixtures_db calls transform_fixture_data)
PollerTransforms ==
    /\ tf_payload # Absent
    /\ tf_poller = Absent
    /\ tf_poller' = transform_fixture_data(tf_payload)
    /\ UNCHANGED <<tf_payload, tf_backfill, tf_csv, tf_rest>>

\* the backfill transforms it, in the task of the fixture's league
BackfillTransforms ==
    /\ tf_payload # Absent
    /\ tf_backfill = Absent
    /\ tf_backfill' = transform_as_matches(tf_payload, tf_payload.league + AS_ID_OFFSET)
    /\ UNCHANGED <<tf_payload, tf_poller, tf_csv, tf_rest>>

\* the converter computes the winner columns of the same result
ConverterComputes ==
    /\ tf_payload # Absent
    /\ tf_csv = Absent
    /\ tf_csv' = process_fd_api_csv(tf_payload)
    /\ UNCHANGED <<tf_payload, tf_poller, tf_backfill, tf_rest>>

NextTF ==
    \/ ReceiveFixture
    \/ PollerTransforms
    \/ BackfillTransforms
    \/ ConverterComputes

SpecTF == InitQuiet /\ [][NextTF]_vars

\* C22: for the same fixture payload, the fixture, league and team ids the
\* poller writes equal the ids the backfill writes.
C22_PollerIdsEqualBackfillIds ==
    (tf_poller # Absent /\ tf_backfill # Absent)
        => /\ tf_poller.fixture_id = tf_backfill.id
           /\ tf_poller.league_id = tf_backfill.competition_id
           /\ tf_poller.home_team_id = tf_backfill.homeTeam
           /\ tf_poller.away_team_id = tf_backfill.awayTeam

\* C23: the poller's home_winner and away_winner follow the aggregate of
\* full-time and extra-time goals; on a tied aggregate the penalty score
\* decides, and without penalty data both are None.
C23_WinnerFromAggregateThenPenalties ==
    tf_poller # Absent
        => LET p == tf_payload
               agg_home == OrZero(safe_int(p.goals_home)) + OrZero(safe_int(p.et_home))
               agg_away == OrZero(safe_int(p.goals_away)) + OrZero(safe_int(p.et_away))
               pens == safe_int(p.pen_home) # None /\ safe_int(p.pen_away) # None
               home == IF agg_home # agg_away THEN PyBool(agg_home > agg_away)
                       ELSE IF pens /\ p.pen_home # p.pen_away
                            THEN PyBool(p.pen_home > p.pen_away)
                            ELSE "None"
               away == IF agg_home # agg_away THEN PyBool(agg_away > agg_home)
                       ELSE IF pens /\ p.pen_home # p.pen_away
                            THEN PyBool(p.pen_away > p.pen_home)
                            ELSE "None"
           IN tf_poller.home_winner = home /\ tf_poller.away_winner = away

(* ------------------------------------------------------------------ *)
(* The poller's cycle (sync.main_loop_async): three date workers        *)
(* (worker_process_date, update_fixtures_db), then trigger_predictor,   *)
(* then the sleep until the next cycle.                                  *)
(* ------------------------------------------------------------------ *)
\* status codes of the provider; the first two are in the list below
PollStatuses == {"NS", "FT", "PST"}

\* if row['status_short'] in ['TBD', 'NS', '1H', 'HT', '2H', 'ET', 'P', 'INT', 'FT']
LiveIsh == {"TBD", "NS", "1H", "HT", "2H", "ET", "P", "INT", "FT"}

\* yesterday_utc, today_utc, tomorrow_utc
Window(today) == <<today - 1, today, today + 1>>

\* what one GET /fixtures?date= can hold
Batches == UNION {[S -> PollStatuses] : S \in SUBSET PolledIds}

\* RETURNING fixture_id, status_short, filtered by the status list
ReturnedIds(batch) == {f \in DOMAIN batch : batch[f] \in LiveIsh}

\* ON CONFLICT (fixture_id) DO UPDATE SET status_short = EXCLUDED.status_short
UpsertStatuses(table, batch) ==
    [f \in PolledIds |-> IF f \in DOMAIN batch THEN batch[f] ELSE table[f]]

\* top of the while loop: all_updated_ids = set(), then the gather starts
CycleStart ==
    /\ pc_pos = "sleep"
    /\ pc_pos' = "gather"
    /\ pc_done' = 0
    /\ all_updated_ids' = {}
    /\ pc_trigger' = [called |-> FALSE, ids |-> {}]
    /\ pc_cycle_day' = pc_day
    /\ pc_committed' = {}
    /\ pc_same' = TRUE
    /\ UNCHANGED <<pc_day, dates_to_sync, pc_table, pc_rest>>

\* worker_process_date: nothing fetched (async_get returned None, an empty
\* response, no connection), or the worker ended with an exception
WorkerReturnsNothing ==
    /\ pc_pos = "gather"
    /\ pc_done < Len(dates_to_sync)
    /\ pc_done' = pc_done + 1
    /\ UNCHANGED <<pc_pos, pc_day, dates_to_sync, pc_table, all_updated_ids,
                   pc_trigger, pc_cycle_day, pc_committed, pc_same, pc_rest>>

\* worker_process_date with fixtures: update_fixtures_db upserts them, collects
\* the returned ids, and commits; when the commit raises, the except branch
\* rolls back and the function still returns the ids collected
WorkerUpserts ==
    /\ pc_pos = "gather"
    /\ pc_done < Len(dates_to_sync)
    /\ \E batch \in Batches, commit_ok \in BOOLEAN :
          /\ DOMAIN batch # {}
          /\ pc_table' = IF commit_ok THEN UpsertStatuses(pc_table, batch) ELSE pc_table
          /\ all_updated_ids' = all_updated_ids \cup ReturnedIds(batch)
          /\ pc_committed' = IF commit_ok THEN pc_committed \cup ReturnedIds(batch)
                             ELSE pc_committed
          /\ pc_same' = (pc_same /\ \A f \in DOMAIN batch : batch[f] = pc_table[f])
    /\ pc_done' = pc_done + 1
    /\ UNCHANGED <<pc_pos, pc_day, dates_to_sync, pc_trigger, pc_cycle_day, pc_rest>>

\* after the gather: if all_updated_ids: trigger_predictor(all_updated_ids);
\* then the cycle sleeps
TriggerPredictor ==
    /\ pc_pos = "gather"
    /\ pc_done = Len(dates_to_sync)
    /\ pc_trigger' = [called |-> all_updated_ids # {}, ids |-> all_updated_ids]
    /\ pc_pos' = "sleep"
    /\ UNCHANGED <<pc_day, dates_to_sync, pc_table, pc_done, all_updated_ids,
                   pc_cycle_day, pc_committed, pc_same, pc_rest>>

\* the calendar moves on while the poller runs
Midnight ==
    /\ pc_day < MaxDay
    /\ pc_day' = pc_day + 1
    /\ UNCHANGED <<pc_pos, dates_to_sync, pc_table, pc_done, all_updated_ids,
                   pc_trigger, pc_cycle_day, pc_committed, pc_same, pc_rest>>

NextPC ==
    \/ CycleStart
    \/ WorkerReturnsNothing
    \/ WorkerUpserts
    \/ TriggerPredictor
    \/ Midnight

SpecPC == InitQuiet /\ [][NextPC]_vars

\* the cycle has gone through its trigger step
CycleOver == pc_pos = "sleep" /\ pc_done = Len(dates_to_sync)

\* C24: in each cycle the prediction pass is triggered exactly when the set of
\* fixture ids upserted with a live-ish status in the cycle is non-empty, and
\* it is called with exactly that set.
C24_TriggeredWithExactlyTheUpsertedIds ==
    CycleOver => /\ pc_trigger.called <=> (pc_committed # {})
                 /\ pc_trigger.called => pc_trigger.ids = pc_committed

\* C25: every fixture id a worker's update_fixtures_db has returned is the id
\* of a row that was committed; a rolled-back call reports none.
C25_ReturnedIdsAreCommitted == all_updated_ids \subseteq pc_committed

\* C26: a cycle in which everything fetched equals what was already stored
\* triggers no prediction pass.
C26_NoTriggerWithoutChange == (CycleOver /\ pc_same) => ~pc_trigger.called

\* C27: the dates a cycle fetches are yesterday, today and tomorrow of the
\* calendar date at that cycle.
C27_WindowFollowsTheCalendar ==
    pc_pos = "gather" => dates_to_sync = Window(pc_cycle_day)

(* ------------------------------------------------------------------ *)
(* Get-or-create under concurrency: populator.get_or_create_as_area     *)
(* (with upsert_areas, committed by its caller) and                      *)
(* csv_populator.get_or_create_team (with _manual_id_insert), on the     *)
(* tables of create_tables: the id is the only key of areas and teams.   *)
(* Each statement reads what is committed (READ COMMITTED); an INSERT    *)
(* waits while another transaction holds an uncommitted row of its id.   *)
(* ------------------------------------------------------------------ *)
GCRoutines == {"get_or_create_as_area", "get_or_create_team"}

GCNames == {"X", "Y"}

\* new_area_id = (max_id or 2000) + 1
FirstAreaMax == 2000

\* SELECT MAX(area_id) FROM areas; SELECT COALESCE(MAX(team_id), 0) + 1
MaxId(rows, floor) ==
    IF rows = {} THEN floor
    ELSE CHOOSE m \in {r.id : r \in rows} : \A r \in rows : r.id <= m

NewId(rows) ==
    IF gc_routine = "get_or_create_as_area"
    THEN MaxId(rows, FirstAreaMax) + 1
    ELSE MaxId(rows, 0) + 1

\* ON CONFLICT (area_id) DO UPDATE SET name = EXCLUDED.name
upsert_areas(rows, row) == {r \in rows : r.id # row.id} \cup {row}

\* the workers are handed the entity each of them needs
GCBegin ==
    /\ gc_routine = "none"
    /\ gc_routine' \in GCRoutines
    /\ \E want \in [GCWorkers -> GCNames] :
          gc_worker' = [w \in GCWorkers |-> [GCIdle EXCEPT !.pc = "lookup", !.name = want[w]]]
    /\ UNCHANGED <<gc_rows, gc_rest>>

\* SELECT ... WHERE name = %s: return the id if a row is there
GCLookup(w) ==
    /\ gc_worker[w].pc = "lookup"
    /\ LET found == {r \in gc_rows : r.name = gc_worker[w].name}
       IN gc_worker' =
             [gc_worker EXCEPT ![w] =
                 IF found # {}
                 THEN [@ EXCEPT !.pc = "done",
                                !.result = (CHOOSE r \in found : TRUE).id]
                 ELSE [@ EXCEPT !.pc = "max"]]
    /\ UNCHANGED <<gc_routine, gc_rows, gc_rest>>

\* not found: SELECT MAX(id), plus one
GCReadMax(w) ==
    /\ gc_worker[w].pc = "max"
    /\ gc_worker' = [gc_worker EXCEPT ![w] = [@ EXCEPT !.pc = "insert",
                                                  !.new_id = NewId(gc_rows)]]
    /\ UNCHANGED <<gc_routine, gc_rows, gc_rest>>

\* get_or_create_as_area: upsert_areas(cur, [area_data]) and return new_area_id;
\* the row stays uncommitted until the caller commits
GCInsertArea(w) ==
    /\ gc_routine = "get_or_create_as_area"
    /\ gc_worker[w].pc = "insert"
    /\ \A v \in GCWorkers \ {w} :
          ~(gc_worker[v].pending /\ gc_worker[v].new_id = gc_worker[w].new_id)
    /\ gc_worker' = [gc_worker EXCEPT ![w] = [@ EXCEPT !.pc = "commit",
                                                  !.pending = TRUE,
                                                  !.result = gc_worker[w].new_id]]
    /\ UNCHANGED <<gc_routine, gc_rows, gc_rest>>

\* discover_as_tasks: conn.commit()
GCCommitArea(w) ==
    /\ gc_worker[w].pc = "commit"
    /\ gc_rows' = upsert_areas(gc_rows, [id |-> gc_worker[w].new_id,
                                         name |-> gc_worker[w].name])
    /\ gc_worker' = [gc_worker EXCEPT ![w] = [@ EXCEPT !.pc = "done", !.pending = FALSE]]
    /\ UNCHANGED <<gc_routine, gc_rest>>

\* get_or_create_team, through _manual_id_insert: a plain INSERT with the
\* chosen id, committed at once; a row of that id raises IntegrityError out of
\* the except branch
GCInsertTeam(w) ==
    /\ gc_routine = "get_or_create_team"
    /\ gc_worker[w].pc = "insert"
    /\ IF \E r \in gc_rows : r.id = gc_worker[w].new_id
       THEN /\ gc_worker' = [gc_worker EXCEPT ![w] = [@ EXCEPT !.pc = "failed"]]
            /\ gc_rows' = gc_rows
       ELSE /\ gc_worker' = [gc_worker EXCEPT ![w] = [@ EXCEPT !.pc = "done",
                                                         !.result = gc_worker[w].new_id]]
            /\ gc_rows' = gc_rows \cup {[id |-> gc_worker[w].new_id,
                                         name |-> gc_worker[w].name]}
    /\ UNCHANGED <<gc_routine, gc_rest>>

NextGC ==
    \/ GCBegin
    \/ \E w \in GCWorkers : GCLookup(w)
    \/ \E w \in GCWorkers : GCReadMax(w)
    \/ \E w \in GCWorkers : GCInsertArea(w)
    \/ \E w \in GCWorkers : GCCommitArea(w)
    \/ \E w \in GCWorkers : GCInsertTeam(w)

SpecGC == InitQuiet /\ [][NextGC]_vars

\* C29: when two workers have got-or-created the same area or team, exactly
\* one row of it exists, both hold that row's id, and neither has failed.
C29_OneRowForRacingWorkers ==
    \A v, w \in GCWorkers :
        (/\ v # w
         /\ gc_worker[v].name = gc_worker[w].name
         /\ gc_worker[v].pc \in {"done", "failed"}
         /\ gc_worker[w].pc \in {"done", "failed"})
            => /\ gc_worker[v].pc = "done" /\ gc_worker[w].pc = "done"
               /\ Cardinality({r \in gc_rows : r.name = gc_worker[v].name}) = 1
               /\ \A r \in gc_rows : r.name = gc_worker[v].name
                                        => /\ gc_worker[v].result = r.id
                                           /\ gc_worker[w].result = r.id

(* ------------------------------------------------------------------ *)
(* Pooled connections and HTTP calls of the workers:                     *)
(* populator.process_season_task_fd (a backfill worker) and              *)
(* sync.worker_process_date (a date worker of the poller).               *)
(* ------------------------------------------------------------------ *)
CNKinds == {"backfill", "poller"}

\* the provider calls one worker makes: matches, standings, teams of a current
\* FD season; one GET /fixtures?date= in the poller
HttpCalls(kind) ==
    IF kind = "backfill" THEN Len(CallPlan(Catalogue(1))) ELSE 1

\* executor.map(process_task_wrapper, ...) / asyncio.gather(worker_process_date ...)
CNStart(w) ==
    /\ cn_worker[w].pc = "idle"
    /\ \E kind \in CNKinds :
          cn_worker' = [cn_worker EXCEPT ![w] = [CNIdle EXCEPT !.kind = kind, !.pc = "getconn"]]
    /\ UNCHANGED cn_rest

\* conn = db_pool.getconn() / conn = db_utils.get_connection(): the first
\* statement of the worker, before any fetch
CNGetConn(w) ==
    /\ cn_worker[w].pc = "getconn"
    /\ cn_worker' = [cn_worker EXCEPT ![w] = [@ EXCEPT !.conn = TRUE, !.pc = "fetch"]]
    /\ UNCHANGED cn_rest

\* api_call_fd(...) / await async_get(...): the request goes out
CNFetchBegin(w) ==
    /\ cn_worker[w].pc = "fetch"
    /\ cn_worker' = [cn_worker EXCEPT ![w] = [@ EXCEPT !.http = TRUE, !.pc = "wait"]]
    /\ UNCHANGED cn_rest

\* the answer arrives and is upserted through the worker's cursor
CNFetchEnd(w) ==
    /\ cn_worker[w].pc = "wait"
    /\ cn_worker' =
          [cn_worker EXCEPT ![w] =
              [@ EXCEPT !.http = FALSE,
                        !.calls = cn_worker[w].calls + 1,
                        !.pc = IF cn_worker[w].calls + 1 < HttpCalls(cn_worker[w].kind)
                               THEN "fetch" ELSE "release"]]
    /\ UNCHANGED cn_rest

\* finally: db_pool.putconn(conn) / db_utils.release_connection(conn)
CNRelease(w) ==
    /\ cn_worker[w].pc = "release"
    /\ cn_worker' = [cn_worker EXCEPT ![w] = CNIdle]
    /\ UNCHANGED cn_rest

NextCN ==
    \/ \E w \in CNWorkers : CNStart(w)
    \/ \E w \in CNWorkers : CNGetConn(w)
    \/ \E w \in CNWorkers : CNFetchBegin(w)
    \/ \E w \in CNWorkers : CNFetchEnd(w)
    \/ \E w \in CNWorkers : CNRelease(w)

SpecCN == InitQuiet /\ [][NextCN]_vars

\* C28: no worker holds a pooled connection while one of its HTTP calls is
\* in flight.
C28_NoConnectionAcrossHttp ==
    \A w \in CNWorkers : ~(cn_worker[w].conn /\ cn_worker[w].http)


(* ------------------------------------------------------------------ *)
(* process_season_task_as of the populator: one AS task from its       *)
(* /teams call to its commit, over the tables of the upsert layer.      *)
(* ------------------------------------------------------------------ *)
\* payloads of one task in the model
MaxTaskBatch == 1

\* standings lists stored by the tasks in the model
MaxTaskLists == 1

\* the rows that upsert_teams(cur, transformed_teams) writes for the teams of
\* the /teams response
TeamsCallRows(teams_data) ==
    upsert_teams([t \in TeamIds |-> Absent], teams_data)

\* steps 1 to 3 and the commit: upsert_teams of the /teams response,
\* upsert_matches_basic of the /fixtures response, upsert_standings of the
\* /standings response, backfill_progress COMPLETED, conn.commit()
ASTaskCompletes ==
    /\ up_program = "populator"
    /\ \E teams_data \in SeqsUpTo(TeamDicts, MaxBatch),
          matches_data \in SeqsUpTo(MatchDicts, MaxTaskBatch),
          standings_data \in SeqsUpTo(StandingDicts, MaxTaskBatch) :
          /\ Len(st_lists) + Len(standings_data) <= MaxTaskLists
          /\ LET t1 == upsert_teams(bk_teams, teams_data)
                 r1 == upsert_matches_basic(t1, bk_matches, matches_data)
                 r2 == upsert_standings(st_lists, st_rows, r1.teams, standings_data)
             IN  /\ r1.outcome = "ok"
                 /\ bk_teams' = r2.teams
                 /\ bk_matches' = r1.matches
                 /\ st_lists' = r2.lists
                 /\ st_rows' = r2.rows
                 /\ at_teams' = TeamsCallRows(teams_data)
    /\ at_done' = TRUE
    /\ up_outcome' = "ok"
    /\ UNCHANGED <<up_program, fx_teams, fx_fixtures, up_again, up_asked, up_malformed>>
    /\ UNCHANGED <<orch_vars, as_vars, as_obs_vars, fd_vars, asm_vars, rq_vars,
                   id_rows, ds_vars, tf_vars, pc_vars, gc_vars, cn_vars,
                   bf_vars, tb_vars, en_vars, pl_vars, cs_vars>>

\* an exception in a provider call or in a statement: conn.rollback(), no
\* row of the task is stored
ASTaskFails ==
    /\ up_program = "populator"
    /\ at_done' = FALSE
    /\ at_teams' = [t \in TeamIds |-> Absent]
    /\ \E outcome \in {"provider_error", "cardinality_violation"} :
          up_outcome' = outcome
    /\ UNCHANGED <<up_program, bk_teams, bk_matches, fx_teams, fx_fixtures,
                   up_again, up_asked, up_malformed, st_vars>>
    /\ UNCHANGED <<orch_vars, as_vars, as_obs_vars, fd_vars, asm_vars, rq_vars,
                   id_rows, ds_vars, tf_vars, pc_vars, gc_vars, cn_vars,
                   bf_vars, tb_vars, en_vars, pl_vars, cs_vars>>

NextAT ==
    \/ ASTaskCompletes
    \/ ASTaskFails

SpecAT == InitQuiet /\ [][NextAT]_vars

\* C32: after an AS task has completed, every team of its /teams response
\* holds the detail values written from that response: the stub upserts made
\* for its matches and standings have not replaced a non-null value by NULL.
C32_TeamsCallDataKept ==
    at_done => \A t \in TeamIds :
                  (at_teams[t].exists /\ at_teams[t].founded # 0)
                      => bk_teams[t].founded = at_teams[t].founded


(* ------------------------------------------------------------------ *)
(* The resumable backfill of src/fetch.py: backfill_manager and one     *)
(* process_competition_backfill per competition. The Match table and    *)
(* SyncState outlive the process; a restart begins a new run.           *)
(* ------------------------------------------------------------------ *)
HISTORICAL_YEARS_TO_BACKFILL == 10

sentinel_year == 2015

\* the matches the provider lists: competition 1 has the season 2015 with
\* matches 1 and 2, competition 2 the season 2016 with matches 3 and 4;
\* match 4 comes without utcDate
BFMatch(m) ==
    [comp |-> IF m <= 2 THEN 1 ELSE 2,
     season |-> IF m <= 2 THEN 2015 ELSE 2016,
     utc_year |-> IF m = 1 THEN 2015 ELSE 2016,
     core |-> m # 4]

BFMatchIds == 1..MaxBFMatches

BFSeason(c) == IF c = 1 THEN 2015 ELSE 2016

season_matches(c) == {m \in BFMatchIds : BFMatch(m).comp = c}

target_year == bf_year - HISTORICAL_YEARS_TO_BACKFILL

\* new_matches: the season's matches with an id above last_synced_id, sorted
\* by id
RECURSIVE SortedIds(_)
SortedIds(S) ==
    IF S = {} THEN <<>>
    ELSE LET lo == CHOOSE m \in S : \A n \in S : m <= n
         IN  <<lo>> \o SortedIds(S \ {lo})

new_matches(c) ==
    SortedIds({m \in season_matches(c) : m > bf_state[c]})

\* backfill_manager up to the start of the pool: the sentinel query, which
\* skips the backfill when a match of sentinel_year is stored; an exception
\* in the query proceeds with the backfill
BFStart ==
    /\ bf_pc \in {"idle", "skipped", "done"}
    /\ \E query_ok \in BOOLEAN :
          bf_pc' = IF query_ok /\ \E m \in bf_stored : BFMatch(m).utc_year = sentinel_year
                   THEN "skipped" ELSE "running"
    /\ bf_worker' = [c \in BFComps |-> BFIdle]
    /\ UNCHANGED <<bf_year, bf_stored, bf_state, bf_failed>>
    /\ UNCHANGED bf_rest

\* process_competition_backfill up to the loop over new_matches
BFSeasonBegin(c) ==
    /\ bf_pc = "running"
    /\ bf_worker[c].pc = "idle"
    /\ bf_worker' = [bf_worker EXCEPT ![c] =
          IF BFSeason(c) < target_year \/ new_matches(c) = <<>>
          THEN [pc |-> "done", todo |-> <<>>]
          ELSE [pc |-> "running", todo |-> new_matches(c)]]
    /\ UNCHANGED <<bf_year, bf_pc, bf_stored, bf_state, bf_failed>>
    /\ UNCHANGED bf_rest

\* fetch_api raises inside the season: the except clause skips the season
BFSeasonFails(c) ==
    /\ bf_pc = "running"
    /\ bf_worker[c].pc = "idle"
    /\ bf_worker' = [bf_worker EXCEPT ![c] = [pc |-> "error", todo |-> <<>>]]
    /\ UNCHANGED <<bf_year, bf_pc, bf_stored, bf_state, bf_failed>>
    /\ UNCHANGED bf_rest

\* one turn of the loop: process_match_smart(match, status, enrich=False)
\* and, when it returns True, the SyncState commit
BFProcessMatch(c) ==
    /\ bf_pc = "running"
    /\ bf_worker[c].pc = "running"
    /\ LET match == Head(bf_worker[c].todo)
           rest == Tail(bf_worker[c].todo)
       IN  /\ \E commit_ok \in BOOLEAN :
                 IF BFMatch(match).core /\ commit_ok
                 THEN /\ bf_stored' = bf_stored \cup {match}
                      /\ bf_state' = [bf_state EXCEPT ![c] = match]
                      /\ UNCHANGED bf_failed
                 ELSE /\ bf_failed' = bf_failed \cup {match}
                      /\ UNCHANGED <<bf_stored, bf_state>>
           /\ bf_worker' = [bf_worker EXCEPT ![c] =
                 [pc |-> IF rest = <<>> THEN "done" ELSE "running", todo |-> rest]]
    /\ UNCHANGED <<bf_year, bf_pc>>
    /\ UNCHANGED bf_rest

\* every future has a result: "HISTORICAL BACKFILL complete."
BFComplete ==
    /\ bf_pc = "running"
    /\ \A c \in BFComps : bf_worker[c].pc \in {"done", "error"}
    /\ bf_pc' = "done"
    /\ UNCHANGED <<bf_year, bf_worker, bf_stored, bf_state, bf_failed>>
    /\ UNCHANGED bf_rest

\* the process is stopped while the backfill runs
BFInterrupt ==
    /\ bf_pc = "running"
    /\ bf_pc' = "idle"
    /\ bf_worker' = [c \in BFComps |-> BFIdle]
    /\ UNCHANGED <<bf_year, bf_stored, bf_state, bf_failed>>
    /\ UNCHANGED bf_rest

\* the calendar year ends while no backfill runs
BFNewYear ==
    /\ bf_pc # "running"
    /\ bf_year < BFLastYear
    /\ bf_year' = bf_year + 1
    /\ UNCHANGED <<bf_pc, bf_worker, bf_stored, bf_state, bf_failed>>
    /\ UNCHANGED bf_rest

NextBF ==
    \/ BFStart
    \/ \E c \in BFComps : BFSeasonBegin(c)
    \/ \E c \in BFComps : BFSeasonFails(c)
    \/ \E c \in BFComps : BFProcessMatch(c)
    \/ BFComplete
    \/ BFInterrupt
    \/ BFNewYear

SpecBF == InitQuiet /\ [][NextBF]_vars

\* C33: a match whose processing failed is processed again by the next run
\* for its competition and season: when a run starts on a season within the
\* backfill range, every match of the season that has core data and is not
\* stored is among the matches the run goes on to process.
C33_FailedMatchIsProcessedAgain ==
    [][\A c \in BFComps :
          (/\ bf_worker[c].pc = "idle"
           /\ bf_worker'[c].pc \in {"running", "done"}
           /\ BFSeason(c) >= target_year)
              => \A m \in season_matches(c) :
                    (BFMatch(m).core /\ m \in bf_failed /\ m \notin bf_stored)
                        => \E i \in 1..Len(bf_worker'[c].todo) :
                              bf_worker'[c].todo[i] = m]_vars

\* C34: backfill_manager skips the backfill only when the backfill is
\* complete: every match with core data of every season within the backfill
\* range is stored.
C34_SkipsOnlyWhenComplete ==
    bf_pc = "skipped"
        => \A m \in BFMatchIds :
              (BFMatch(m).core /\ BFMatch(m).season >= target_year)
                  => m \in bf_stored


(* ------------------------------------------------------------------ *)
(* TokenBucketLimiter of src/fetch.py, shared by all threads. Time is   *)
(* counted in units of REQUEST_INTERVAL = 60 / MAX_REQUESTS_PER_MINUTE  *)
(* seconds, in which the bucket gains one token; a minute is            *)
(* MAX_REQUESTS_PER_MINUTE units. Threads call wait at whole units.     *)
(* ------------------------------------------------------------------ *)
TBCallers == 1..MaxTBCallers

Min(a, b) == IF a <= b THEN a ELSE b

\* the refill at the head of wait: self.tokens = min(self.rate, self.tokens + new_tokens)
Refilled == Min(MAX_REQUESTS_PER_MINUTE, tb_tokens + (tb_clock - tb_last_refill))

\* the calls of wait that returned within the minute that starts at t
GrantedFrom(t) ==
    LET Sum[u \in t..(t + MAX_REQUESTS_PER_MINUTE)] ==
            IF u = t + MAX_REQUESTS_PER_MINUTE \/ u > MaxTBClock THEN 0
            ELSE tb_granted[u] + Sum[u + 1]
    IN  Sum[t]

\* wait with a token in the bucket: the token is taken and wait returns
TBWaitTakes(c) ==
    /\ tb_sleeper.caller = 0
    /\ Refilled >= 1
    /\ tb_tokens' = Refilled - 1
    /\ tb_last_refill' = tb_clock
    /\ tb_granted' = [tb_granted EXCEPT ![tb_clock] = @ + 1]
    /\ UNCHANGED <<tb_clock, tb_sleeper>>
    /\ UNCHANGED tb_rest

\* wait with no token: the thread sleeps (1 - tokens) * (60 / rate) seconds
\* while it holds the lock
TBWaitSleeps(c) ==
    /\ tb_sleeper.caller = 0
    /\ Refilled < 1
    /\ tb_tokens' = Refilled
    /\ tb_last_refill' = tb_clock
    /\ tb_sleeper' = [caller |-> c, wake |-> tb_clock + (1 - Refilled)]
    /\ UNCHANGED <<tb_clock, tb_granted>>
    /\ UNCHANGED tb_rest

\* the sleep is over: self.tokens -= 1, the lock is released, wait returns
TBWake(c) ==
    /\ tb_sleeper.caller = c
    /\ tb_clock >= tb_sleeper.wake
    /\ tb_tokens' = tb_tokens - 1
    /\ tb_sleeper' = [caller |-> 0, wake |-> 0]
    /\ tb_granted' = [tb_granted EXCEPT ![tb_clock] = @ + 1]
    /\ UNCHANGED <<tb_clock, tb_last_refill>>
    /\ UNCHANGED tb_rest

TBTick ==
    /\ tb_clock < MaxTBClock
    /\ tb_sleeper.caller # 0 => tb_clock < tb_sleeper.wake
    /\ tb_clock' = tb_clock + 1
    /\ UNCHANGED <<tb_tokens, tb_last_refill, tb_sleeper, tb_granted>>
    /\ UNCHANGED tb_rest

NextTB ==
    \/ \E c \in TBCallers : TBWaitTakes(c)
    \/ \E c \in TBCallers : TBWaitSleeps(c)
    \/ \E c \in TBCallers : TBWake(c)
    \/ TBTick

SpecTB == InitQuiet /\ [][NextTB]_vars

\* C35: no 60-second window holds more than MAX_REQUESTS_PER_MINUTE granted
\* requests, however many threads call wait.
C35_AtMostRatePerMinute ==
    \A t \in 0..MaxTBClock : GrantedFrom(t) <= MAX_REQUESTS_PER_MINUTE


(* ------------------------------------------------------------------ *)
(* The enrichment cycle of the poller (src/sync.py): the state after    *)
(* initialize_priority_status and the discovery of the external         *)
(* leagues, then run_enrichment_cycle with its workers, each on its     *)
(* own league. Time enters through two facts only: whether a league's   *)
(* last_enriched_at, and whether LAST_ENRICHMENT_RUN, lies within the   *)
(* last COOLDOWN_HOURS.                                                 *)
(* ------------------------------------------------------------------ *)
ENRICHMENT_BATCH_SIZE == 20

BATCH_SIZE == ENRICHMENT_BATCH_SIZE * 2

\* the first league has no row in league_seasons with is_current = TRUE
ENIsCurrent(l) == l # 1

\* the last priority league has no row in fixtures
ENHasFixtures(l) == l # MaxENExternal + MaxENPriority

\* priority_sql: status PRIORITY, a latest season, last_enriched_at older
\* than the cooldown
priority_targets ==
    {l \in ENLeagues : /\ en_status[l] = "PRIORITY"
                       /\ ENHasFixtures(l)
                       /\ ~en_fresh[l]}

\* external_sql: status PENDING, a current season, ORDER BY league_id ASC
\* LIMIT BATCH_SIZE // 2
external_targets ==
    LET pending == {l \in ENLeagues : en_status[l] = "PENDING" /\ ENIsCurrent(l)}
    IN  {l \in pending :
            Cardinality({k \in pending : k < l}) < BATCH_SIZE \div 2}

\* the workers of one cycle that return True: all, none, the one on the
\* lowest league, or all but that one
ENOutcomes(targets) ==
    LET lo == {l \in targets : \A k \in targets : l <= k}
    IN  {targets, {}, lo, targets \ lo}

\* run_enrichment_cycle: target selection, the workers, the cooldown timer;
\* a worker that returns True has set its league ENRICHED with
\* last_enriched_at = NOW()
ENCycle ==
    LET external == IF en_cooldown THEN {} ELSE external_targets
        targets == priority_targets \cup external
    IN  /\ en_targets' = targets
        /\ \E ok \in ENOutcomes(targets) :
              /\ en_status' = [l \in ENLeagues |->
                                  IF l \in ok THEN "ENRICHED" ELSE en_status[l]]
              /\ en_fresh' = [l \in ENLeagues |-> l \in ok \/ en_fresh[l]]
        /\ en_cooldown' = (en_cooldown \/ external # {})
        /\ UNCHANGED en_rest

\* no connection, or an exception in the target selection: the cycle returns
ENCycleFails ==
    /\ en_targets' = {}
    /\ UNCHANGED <<en_status, en_fresh, en_cooldown>>
    /\ UNCHANGED en_rest

\* COOLDOWN_HOURS pass without a cycle
ENCooldownPasses ==
    /\ en_cooldown \/ \E l \in ENLeagues : en_fresh[l]
    /\ en_fresh' = [l \in ENLeagues |-> FALSE]
    /\ en_cooldown' = FALSE
    /\ UNCHANGED <<en_status, en_targets>>
    /\ UNCHANGED en_rest

NextEN ==
    \/ ENCycle
    \/ ENCycleFails
    \/ ENCooldownPasses

\* the main loop runs a cycle every ENRICHMENT_CHECK_INTERVAL_SECONDS, and
\* time passes
SpecEN ==
    /\ InitQuiet
    /\ [][NextEN]_vars
    /\ WF_vars(ENCycle)
    /\ WF_vars(ENCooldownPasses)

\* C36: every priority league with fixtures is selected for enrichment
\* again and again.
C36_PriorityLeagueReEnrichedForever ==
    \A l \in PRIORITY_LEAGUE_IDS :
        ENHasFixtures(l) => []<>(l \in en_targets)

\* C37: every external league that is PENDING and has a current season is
\* eventually selected for enrichment.
C37_PendingLeagueEventuallySelected ==
    \A l \in ENExternal :
        (en_status[l] = "PENDING" /\ ENIsCurrent(l)) ~> (l \in en_targets)


(* ------------------------------------------------------------------ *)
(* The connection pool and the code that takes connections from it:     *)
(* process_season_task_fd in the populator; run_enrichment_cycle (its   *)
(* target selection) and run_enrichment_worker in the poller. Each      *)
(* program has its own ThreadedConnectionPool.                          *)
(* ------------------------------------------------------------------ *)
PLKinds(program) ==
    IF program = "populator" THEN {"fd_task"}
    ELSE {"enrichment_cycle", "enrichment_worker"}

\* what the body of a worker ends with
PLOutcomes(kind) ==
    IF kind = "fd_task" THEN {"ok", "provider_error", "403", "db_error"}
    ELSE {"ok", "provider_error", "db_error"}

\* the connection getconn hands out
FreeConn(used) == CHOOSE k \in PLConns \ used : \A j \in PLConns \ used : k <= j

forbidden_handler_GetsSecond(used, conn) ==
    IF PLConns \ used = {}
    THEN [used |-> used, conn |-> conn]
    ELSE [used |-> used \cup {FreeConn(used)}, conn |-> FreeConn(used)]

\* the branch "Forbidden (403)" of the except clause of process_season_task_fd:
\* logging.CRITICAL is the integer 50, the call raises TypeError and the
\* statements after it, the second db_pool.getconn() among them, do not run
forbidden_handler(used, conn) ==
    [used |-> used, conn |-> conn]

\* a task is handed to a thread of the pool / a coroutine is started
PLStart(w) ==
    /\ pl_worker[w].pc = "idle"
    /\ \E kind \in PLKinds(up_program) :
          pl_worker' = [pl_worker EXCEPT ![w] = [PLIdle EXCEPT !.kind = kind, !.pc = "getconn"]]
    /\ UNCHANGED <<pl_used, pl_fault>>
    /\ UNCHANGED pl_rest

\* conn = db_pool.getconn() / conn = db_utils.get_connection(). With the pool
\* exhausted getconn raises PoolError: the task goes to its except clause
\* with conn None; get_connection returns None and the caller returns
PLGetConn(w) ==
    /\ pl_worker[w].pc = "getconn"
    /\ IF PLConns \ pl_used # {}
       THEN /\ pl_used' = pl_used \cup {FreeConn(pl_used)}
            /\ pl_worker' = [pl_worker EXCEPT ![w] =
                                [@ EXCEPT !.conn = FreeConn(pl_used), !.pc = "body"]]
       ELSE /\ pl_used' = pl_used
            /\ pl_worker' = [pl_worker EXCEPT ![w] =
                                IF pl_worker[w].kind = "fd_task"
                                THEN [@ EXCEPT !.outcome = "db_error", !.pc = "finally"]
                                ELSE [PLIdle EXCEPT !.outcome = "db_error"]]
    /\ UNCHANGED pl_fault
    /\ UNCHANGED pl_rest

\* the body of the try block and the except clause: commit and return, or
\* rollback and return False
PLBody(w) ==
    /\ pl_worker[w].pc = "body"
    /\ \E outcome \in PLOutcomes(pl_worker[w].kind) :
          LET r == IF outcome = "403"
                   THEN forbidden_handler(pl_used, pl_worker[w].conn)
                   ELSE [used |-> pl_used, conn |-> pl_worker[w].conn]
          IN  /\ pl_used' = r.used
              /\ pl_worker' = [pl_worker EXCEPT ![w] =
                                  [@ EXCEPT !.conn = r.conn, !.outcome = outcome,
                                            !.pc = "finally"]]
    /\ UNCHANGED pl_fault
    /\ UNCHANGED pl_rest

\* finally: if conn: db_pool.putconn(conn) / db_utils.release_connection(conn)
PLFinally(w) ==
    /\ pl_worker[w].pc = "finally"
    /\ pl_used' = pl_used \ {pl_worker[w].conn}
    /\ pl_fault' = (pl_fault \/ (pl_worker[w].conn # 0 /\ pl_worker[w].conn \notin pl_used))
    /\ pl_worker' = [pl_worker EXCEPT ![w] = [PLIdle EXCEPT !.outcome = pl_worker[w].outcome]]
    /\ UNCHANGED pl_rest

NextPL ==
    \/ \E w \in PLWorkers : PLStart(w)
    \/ \E w \in PLWorkers : PLGetConn(w)
    \/ \E w \in PLWorkers : PLBody(w)
    \/ \E w \in PLWorkers : PLFinally(w)

SpecPL == InitUP /\ [][NextPL]_vars

\* C38: on every path of a backfill task and of a poller worker each
\* connection that was taken from the pool is put back exactly once: a
\* checked-out connection is held by exactly one running worker, no
\* connection is put back twice, the pool never has more than its maximum
\* checked out, and none is checked out when no worker is running.
C38_ConnectionsReturnedOnce ==
    /\ Cardinality(pl_used) <= MaxPLConns
    /\ ~pl_fault
    /\ \A k \in pl_used :
          Cardinality({w \in PLWorkers : pl_worker[w].pc # "idle"
                                            /\ pl_worker[w].conn = k}) = 1
    /\ (\A w \in PLWorkers : pl_worker[w].pc = "idle") => pl_used = {}

\* a task that ended on a 403 and a task that ended on a provider error, all
\* workers at rest again and nothing checked out
C38_Witness ==
    /\ \A w \in PLWorkers : pl_worker[w].pc = "idle"
    /\ \E w \in PLWorkers : pl_worker[w].outcome = "403"
    /\ \E w \in PLWorkers : pl_worker[w].outcome = "provider_error"
    /\ pl_used = {}


(* ------------------------------------------------------------------ *)
(* csv_populator.py: _process_row_with_conn and process_row. A thread   *)
(* takes a connection, process_row writes through it, the connection    *)
(* goes back to the pool. pending is what the connection's open         *)
(* transaction holds; cs_committed is what other sessions can see.      *)
(* ------------------------------------------------------------------ *)
\* the rows process_row inserts after the match row of a new match: the
\* referee when the row names one, the odds when it carries them, the team
\* stats for the source FD
RelatedInserts(rec) ==
    (IF rec.referee THEN {"match_referees"} ELSE {})
        \cup (IF rec.odds THEN {"match_odds"} ELSE {})
        \cup (IF rec.source_type = "FD" THEN {"match_team_stats"} ELSE {})

\* executor.submit(_process_row_with_conn, row, filename, source_type):
\* conn = db_pool.getconn()
CSVBegin(w) ==
    /\ cs_worker[w].pc = "idle"
    /\ \E row \in CSVRows, source_type \in {"FD", "COUNTRY"}, referee, odds \in BOOLEAN :
          /\ \A v \in CSVWorkers : cs_worker[v].pc # "idle" => cs_worker[v].row # row
          /\ cs_worker' = [cs_worker EXCEPT ![w] =
                [CSVIdle EXCEPT !.pc = "area", !.row = row, !.source_type = source_type,
                                !.referee = referee, !.odds = odds]]
    /\ UNCHANGED <<cs_area, cs_committed>>
    /\ UNCHANGED cs_rest

\* get_or_create_area: the lookup returns the area when it exists; the
\* INSERT that follows otherwise reads "RETr:UNING area_id", a syntax error,
\* which process_row catches: rollback, the row is logged as an error
CSVArea(w) ==
    /\ cs_worker[w].pc = "area"
    /\ cs_worker' = [cs_worker EXCEPT ![w] =
          IF cs_area THEN [@ EXCEPT !.pc = "lookups"]
          ELSE [@ EXCEPT !.pc = "return", !.error = TRUE]]
    /\ UNCHANGED <<cs_area, cs_committed>>
    /\ UNCHANGED cs_rest

\* get_or_create_competition, get_or_create_team (twice), get_or_create_person:
\* each commits what it inserted; an exception ends the row
CSVLookups(w) ==
    /\ cs_worker[w].pc = "lookups"
    /\ \E ok \in BOOLEAN :
          IF ok
          THEN /\ cs_committed' = cs_committed \cup {<<cs_worker[w].row, "teams">>}
               /\ cs_worker' = [cs_worker EXCEPT ![w] = [@ EXCEPT !.pc = "match"]]
          ELSE /\ cs_committed' = cs_committed
               /\ cs_worker' = [cs_worker EXCEPT ![w] =
                                   [@ EXCEPT !.pc = "return", !.error = TRUE]]
    /\ UNCHANGED cs_area
    /\ UNCHANGED cs_rest

\* get_or_insert_match and, for a new match, the inserts of the referee, the
\* odds and the team stats; none of them commits. An exception rolls back
CSVMatch(w) ==
    /\ cs_worker[w].pc = "match"
    /\ \E ok \in BOOLEAN :
          cs_worker' = [cs_worker EXCEPT ![w] =
             IF ~ok THEN [@ EXCEPT !.pc = "return", !.error = TRUE]
             ELSE IF <<cs_worker[w].row, "matches">> \in cs_committed
             THEN [@ EXCEPT !.pc = "return"]
             ELSE [@ EXCEPT !.pc = "return",
                            !.pending = {"matches"} \cup RelatedInserts(cs_worker[w]),
                            !.inserted = {"matches"} \cup RelatedInserts(cs_worker[w])]]
    /\ UNCHANGED <<cs_area, cs_committed>>
    /\ UNCHANGED cs_rest

\* finally: cur.close(); finally: db_pool.putconn(conn). process_row has not
\* committed; the pool rolls back or closes a connection that is handed back
\* with a transaction open
CSVReturn(w) ==
    /\ cs_worker[w].pc = "return"
    /\ cs_worker' = [cs_worker EXCEPT ![w] = [@ EXCEPT !.pc = "idle", !.pending = {}]]
    /\ UNCHANGED <<cs_area, cs_committed>>
    /\ UNCHANGED cs_rest

\* the populator, on the same database, upserts the area
CSVAreaArrives ==
    /\ ~cs_area
    /\ cs_area' = TRUE
    /\ UNCHANGED <<cs_committed, cs_worker>>
    /\ UNCHANGED cs_rest

NextCSV ==
    \/ \E w \in CSVWorkers : CSVBegin(w)
    \/ \E w \in CSVWorkers : CSVArea(w)
    \/ \E w \in CSVWorkers : CSVLookups(w)
    \/ \E w \in CSVWorkers : CSVMatch(w)
    \/ \E w \in CSVWorkers : CSVReturn(w)
    \/ CSVAreaArrives

SpecCSV == InitQuiet /\ [][NextCSV]_vars

\* C39: when the connection of a row that was handled without an error is
\* back in the pool, the match row that process_row inserted and the odds,
\* team-stats and referee rows it inserted for that match are committed.
C39_InsertedRowsAreCommitted ==
    \A w \in CSVWorkers :
        (cs_worker[w].pc = "idle" /\ ~cs_worker[w].error)
            => \A table \in cs_worker[w].inserted :
                  <<cs_worker[w].row, table>> \in cs_committed

====
